---- MODULE Spec2Model ----
(***************************************************************************)
(* A model of package diff (teleivo/diff): the Myers shortest-edit-script  *)
(* search and its backward reconstruction (Lines, shortestEdit) and the    *)
(* unified-diff hunk writer (WriteUnified, unifiedWriter.write), the      *)
(* later Write with its options and gutter format, and the gdiff command   *)
(* (run, files, readLines).                                                *)
(*                                                                         *)
(* Go slices are 0-indexed; sequences here are 1-indexed.  A Go access     *)
(* s[j] is written s[j + 1].  The V array of shortestEdit is a function on *)
(* 0 .. 2*maxD so that its offsets are the ones of the source.  A line is  *)
(* a sequence of one-character strings, "" is << >>.                       *)
(***************************************************************************)
EXTENDS Integers, Sequences, FiniteSets, TLC

\* Longest input sequence given to Lines.
MaxLen == 3

\* The lines the inputs of Lines are drawn from.
Alphabet == {<<"A">>, <<"B">>, <<"C">>}

Ins == "Ins"
Del == "Del"
Eq == "Eq"

OpType == {Ins, Del, Eq}

\* Longest edit list given to WriteUnified.
MaxEdits == 7

\* Largest context given to WriteUnified.
MaxContext == 2

\* The size of the buffer of bufio.NewWriter.
DefaultBufSize == 4096

\* The line texts of the edit lists given to WriteUnified.
WriterLines == {<<"l", "\n">>}

\* Longest edit list given to WriteUnified when the texts vary, and the
\* texts: a line with its '\n', a last line without it, the empty string.
MaxTextEdits == 3
TextLines == {<<"l", "\n">>, <<"l">>, << >>}

\* Longest edit list given to WriteUnified when the sink may fail, the
\* largest scaled-down buffer, and the latest Write call the sink fails.
MaxSinkEdits == 4
MaxBufCap == 3
MaxFailAt == 3

\* Longest edit list WriteUnified is called on twice.
MaxMonoEdits == 6

\* The negative contexts given to WriteUnified are -MaxNegContext .. -1.
MaxNegContext == 2

\* Most options and longest edit list given to Write when the options vary.
MaxOpts == 2
MaxOptEdits == 3

\* Gutter format: the longest edit list and largest context when the texts
\* vary, and the longest run of Eq edits put before an edit list of at most
\* MaxWideEdits edits to reach old line numbers of two digits.
MaxGutterEdits == 3
MaxGutterContext == 1
MaxPrefix == 9
MaxWideEdits == 3

\* gdiff: the longest file, in characters, and the largest -U.
MaxFileLen == 3
MaxGdiffContext == 1

\* The context of Write when no option sets it.
DefaultContext == 3

\* Edit{Op, OldLine, NewLine}; an unset string field is "".
Edit(op, old, new) == [Op |-> op, OldLine |-> old, NewLine |-> new]

VARIABLES
    oldLines,   \* Lines: the old sequence (a)
    newLines,   \* Lines: the new sequence (b)
    pc,         \* Lines: "search", "walk", "done", "panic"; "idle" when not run
    v,          \* shortestEdit: furthest x per diagonal, index k + maxD
    trace,      \* shortestEdit: one snapshot of v per depth
    d,          \* depth of the search loop, then of the backward walk
    k,          \* diagonal of the search loop
    x,          \* backward walk: position in the old sequence
    y,          \* backward walk: position in the new sequence
    edits,      \* Lines: the edits appended so far (backward order)
    result,     \* Lines: the returned slice
    uwEdits,    \* unifiedWriter.edits
    context,    \* unifiedWriter.context
    eqCount,    \* consecutive equal lines since the last change
    lineOld,    \* current line number in the old sequence
    lineNew,    \* current line number in the new sequence
    hunkStart,  \* index into edits where the current hunk starts, -1 if none
    hunkEnd,    \* index into edits where the current hunk ends
    startOld,   \* start line in the old sequence for the current hunk
    startNew,   \* start line in the new sequence for the current hunk
    countOld,   \* number of old lines in the current hunk
    countNew,   \* number of new lines in the current hunk
    i,          \* unifiedWriter.write: index of the loop over the edits
    upc,        \* WriteUnified: "loop", "done"; "idle" when not run
    out,        \* what uw.w accepted, one element per line written
    hunks,      \* the calls of writeHunk so far: the writer's fields and end
    bufCap,     \* bufio.Writer: the writes the buffer of uw.w holds
    buffered,   \* bufio.Writer: the writes held in the buffer (b.n)
    werr,       \* bufio.Writer: whether a write to the sink has failed (b.err)
    sink,       \* the Write calls made on the sink w, and whether each succeeded
    failAt,     \* the number of the Write call the sink fails, 0 if it never fails
    ret,        \* what WriteUnified returned: "nil", "err"; "none" before
    saved,      \* the hunks of the previous call of WriteUnified on the list
    fn,         \* the function called: "WriteUnified" or "Write"
    gutter,     \* Write: conf.gutter
    opts,       \* Write: the options of the call, as written at the call site
    args,       \* gdiff: the command line as the flag package parses it
    fileOld,    \* gdiff: the file named by the first argument
    fileNew,    \* gdiff: the file named by the second argument
    gpc,        \* gdiff: where run is
    fret,       \* gdiff: what files returned
    code        \* gdiff: the exit code run returned, -1 before it returns

linesVars == <<oldLines, newLines, pc, v, trace, d, k, x, y, edits, result>>

writerVars == <<uwEdits, context, eqCount, lineOld, lineNew, hunkStart, hunkEnd,
                startOld, startNew, countOld, countNew, i, upc, out, hunks,
                bufCap, buffered, werr, sink, failAt, ret, saved, fn, gutter, opts>>

sinkVars == <<out, hunks, buffered, werr, sink, ret>>

gdiffVars == <<args, fileOld, fileNew, gpc, fret, code>>

vars == <<linesVars, writerVars, gdiffVars>>

n == Len(oldLines)
m == Len(newLines)
maxD == n + m

Min(p, q) == IF p < q THEN p ELSE q
Max(p, q) == IF p > q THEN p ELSE q

RECURSIVE SeqsUpTo(_, _)
\* All sequences over S of length at most len.
SeqsUpTo(S, len) ==
    IF len = 0 THEN {<< >>}
    ELSE LET shorter == SeqsUpTo(S, len - 1)
         IN  shorter \cup {Append(s, e) : s \in {t \in shorter : Len(t) = len - 1}, e \in S}

RECURSIVE Reverse(_)
Reverse(s) == IF s = << >> THEN << >> ELSE Append(Reverse(Tail(s)), Head(s))

--------------------------------------------------------------------------
(* shortestEdit *)

\* Mutant of searchDown: the tie between the two neighbours goes down.
searchDown_TieDown(vv, kk, dd) ==
    kk = -dd \/ (kk # dd /\ vv[kk + maxD - 1] <= vv[kk + maxD + 1])

\* The move taken to reach diagonal kk at depth dd in the forward search:
\* TRUE is down (insert, from kk + 1), FALSE is right (delete, from kk - 1).
searchDown(vv, kk, dd) ==
    kk = -dd \/ (kk # dd /\ vv[kk + maxD - 1] < vv[kk + maxD + 1])

RECURSIVE snake_NoCompare(_, _)
\* Mutant of snake: the diagonal is followed without comparing the lines.
snake_NoCompare(xx, yy) ==
    IF xx < n /\ yy < m THEN snake_NoCompare(xx + 1, yy + 1) ELSE xx

\* Mutant of snake: the diagonal is never followed.
snake_None(xx, yy) == xx

RECURSIVE snake(_, _)
\* The x reached by following the diagonal from (xx, yy) while lines are equal.
snake(xx, yy) ==
    IF xx < n /\ yy < m /\ oldLines[xx + 1] = newLines[yy + 1]
    THEN snake(xx + 1, yy + 1)
    ELSE xx

\* The start of the furthest reaching path on diagonal kk, before the snake.
searchStart(vv, kk, dd) ==
    IF searchDown(vv, kk, dd) THEN vv[kk + maxD + 1] ELSE vv[kk + maxD - 1] + 1

\* Diagonals outside the edit graph are skipped.
outOfBounds(kk) == kk > n \/ kk < -m

reachedEnd_Either(xx, yy) == xx >= n \/ yy >= m

\* The stop test of the search.
reachedEnd(xx, yy) == xx >= n /\ yy >= m

\* State of the backward walk on return of shortestEdit with trace tr.
StartWalk(tr) ==
    /\ pc' = "walk"
    /\ d' = Len(tr) - 1
    /\ x' = n
    /\ y' = m

\* One iteration of the inner loop of shortestEdit (diagonal k of depth d);
\* the first iteration of a depth appends the snapshot of v to the trace.
SearchStep ==
    /\ pc = "search"
    /\ LET tr == IF k = -d THEN Append(trace, v) ELSE trace
           xs == searchStart(v, k, d)
           xe == snake(xs, xs - k)
           ye == xe - k
           lastK == k + 2 > d
       IN  /\ trace' = tr
           /\ IF outOfBounds(k)
              THEN /\ v' = v
                   /\ IF lastK /\ d = maxD
                      THEN /\ StartWalk(tr)
                           /\ k' = k
                      ELSE /\ pc' = pc
                           /\ d' = IF lastK THEN d + 1 ELSE d
                           /\ k' = IF lastK THEN -(d + 1) ELSE k + 2
                           /\ UNCHANGED <<x, y>>
              ELSE /\ v' = [v EXCEPT ![k + maxD] = xe]
                   /\ IF reachedEnd(xe, ye) \/ (lastK /\ d = maxD)
                      THEN /\ StartWalk(tr)
                           /\ k' = k
                      ELSE /\ pc' = pc
                           /\ d' = IF lastK THEN d + 1 ELSE d
                           /\ k' = IF lastK THEN -(d + 1) ELSE k + 2
                           /\ UNCHANGED <<x, y>>
    /\ UNCHANGED <<oldLines, newLines, edits, result>>
    /\ UNCHANGED writerVars
    /\ UNCHANGED gdiffVars

--------------------------------------------------------------------------
(* Lines: the backward walk *)

\* The move that reached diagonal kk at depth dd, recomputed from the snapshot.
walkDown(vv, kk, dd) ==
    kk = -dd \/ (kk # dd /\ vv[kk + maxD - 1] < vv[kk + maxD + 1])

\* Whether j indexes the V array.
inV(j) == 0 <= j /\ j <= 2 * maxD

\* Whether the tie-break of the walk reads the V array inside its range.
walkReadsOK(kk, dd) ==
    \/ kk = -dd
    \/ kk = dd
    \/ (inV(kk + maxD - 1) /\ inV(kk + maxD + 1))

\* Mutant of walkPrevK: the walk stays on its diagonal.
walkPrevK_Same(vv, kk, dd) == kk

\* Mutant of walkPrevK: the predecessor diagonals are swapped.
walkPrevK_Swapped(vv, kk, dd) == IF walkDown(vv, kk, dd) THEN kk - 1 ELSE kk + 1

walkPrevK(vv, kk, dd) == IF walkDown(vv, kk, dd) THEN kk + 1 ELSE kk - 1

\* Mutant of walkSnakeLen: the snake is walked back one step too far.
walkSnakeLen_Long(xx, yy, prevX, prevY) == Max(0, Min(xx - prevX, yy - prevY) + 1)

\* Mutant of walkSnakeLen: the snake is walked back one step short.
walkSnakeLen_Short(xx, yy, prevX, prevY) == Max(0, Min(xx - prevX, yy - prevY) - 1)

\* Length of the snake walked back from (xx, yy) to the predecessor's end.
walkSnakeLen(xx, yy, prevX, prevY) == Max(0, Min(xx - prevX, yy - prevY))

\* Mutant of walkSnake: the Eq edits carry only the old line.
walkSnake_OldOnly(xx, yy, len) ==
    [j \in 1 .. len |-> Edit(Eq, oldLines[xx - j + 1], << >>)]

\* The Eq edits of the snake, in the order they are appended (backward).
walkSnake(xx, yy, len) ==
    [j \in 1 .. len |-> Edit(Eq, oldLines[xx - j + 1], newLines[yy - j + 1])]

\* Whether the snake indexes both sequences inside their ranges.
walkSnakeOK(xx, yy, len) ==
    len = 0 \/ (xx <= n /\ yy <= m /\ xx - len >= 0 /\ yy - len >= 0)

\* Mutant of walkEdit: the operations are swapped.
walkEdit_Swapped(op, xx, yy) ==
    IF op = Ins
    THEN Edit(Del, newLines[yy], << >>)
    ELSE Edit(Ins, << >>, oldLines[xx])

\* The edit appended after the snake at a depth above 0.
walkEdit(op, xx, yy) ==
    IF op = Ins
    THEN Edit(Ins, << >>, newLines[yy])
    ELSE Edit(Del, oldLines[xx], << >>)

\* Whether the edit after the snake indexes its sequence inside its range.
walkEditOK(op, xx, yy) ==
    IF op = Ins THEN 1 <= yy /\ yy <= m ELSE 1 <= xx /\ xx <= n

Panic ==
    /\ pc' = "panic"
    /\ UNCHANGED <<d, x, y, edits, result>>

\* One iteration of the loop of Lines over the depths, from the last one down;
\* the iteration of depth 0 is followed by the reversal and the return.
walkBody ==
    /\ pc = "walk"
    /\ d >= 0
    /\ LET vv == trace[d + 1]
           kk == x - y
       IN  IF ~walkReadsOK(kk, d)
           THEN Panic
           ELSE LET prevK == walkPrevK(vv, kk, d)
                    op == IF walkDown(vv, kk, d) THEN Ins ELSE Del
                IN  IF ~inV(prevK + maxD)
                    THEN Panic
                    ELSE LET prevX == vv[prevK + maxD]
                             prevY == prevX - prevK
                             len == walkSnakeLen(x, y, prevX, prevY)
                             xs == x - len
                             ys == y - len
                         IN  IF \/ ~walkSnakeOK(x, y, len)
                                \/ (d > 0 /\ ~walkEditOK(op, xs, ys))
                             THEN Panic
                             ELSE LET es == edits \o walkSnake(x, y, len)
                                            \o (IF d > 0 THEN <<walkEdit(op, xs, ys)>> ELSE << >>)
                                  IN  /\ edits' = es
                                      /\ x' = prevX
                                      /\ y' = prevY
                                      /\ d' = d - 1
                                      /\ pc' = IF d = 0 THEN "done" ELSE "walk"
                                      /\ result' = IF d = 0 THEN Reverse(es) ELSE result

\* Mutant of WalkStep: the reversal at the end of the walk is done on the
\* old lines as well.
WalkStep_ReversesInput ==
    /\ walkBody
    /\ oldLines' = IF d = 0 THEN Reverse(oldLines) ELSE oldLines
    /\ UNCHANGED <<newLines, v, trace, k>>
    /\ UNCHANGED writerVars
    /\ UNCHANGED gdiffVars

\* One iteration of the loop of the walk in Lines: the inputs, the trace and
\* everything outside Lines are left alone.
WalkStep ==
    /\ walkBody
    /\ UNCHANGED <<oldLines, newLines, v, trace, k>>
    /\ UNCHANGED writerVars
    /\ UNCHANGED gdiffVars

--------------------------------------------------------------------------
(* Lines *)

\* The state on entry of Lines(a, b): two empty inputs return nil at once.
LinesEntry(a, b) ==
    /\ oldLines = a
    /\ newLines = b
    /\ pc = IF Len(a) + Len(b) = 0 THEN "done" ELSE "search"
    /\ v = [j \in 0 .. 2 * (Len(a) + Len(b)) |-> 0]
    /\ trace = << >>
    /\ d = 0
    /\ k = 0
    /\ x = 0
    /\ y = 0
    /\ edits = << >>
    /\ result = << >>

\* The variables of gdiff when gdiff is not run.
GdiffIdle ==
    /\ args = [parse |-> "ok", narg |-> 0, context |-> 0, gutter |-> FALSE]
    /\ fileOld = [exists |-> FALSE, readable |-> FALSE, data |-> << >>]
    /\ fileNew = [exists |-> FALSE, readable |-> FALSE, data |-> << >>]
    /\ gpc = "idle"
    /\ fret = [hasDiff |-> FALSE, err |-> FALSE]
    /\ code = -1

\* The writer's fields when WriteUnified is not run.
WriterIdle ==
    /\ uwEdits = << >>
    /\ context = 0
    /\ eqCount = 0
    /\ lineOld = 0
    /\ lineNew = 0
    /\ hunkStart = -1
    /\ hunkEnd = -1
    /\ startOld = 0
    /\ startNew = 0
    /\ countOld = 0
    /\ countNew = 0
    /\ i = 0
    /\ upc = "idle"
    /\ out = << >>
    /\ hunks = << >>
    /\ bufCap = DefaultBufSize
    /\ buffered = 0
    /\ werr = FALSE
    /\ sink = << >>
    /\ failAt = 0
    /\ ret = "none"
    /\ saved = << >>
    /\ fn = "WriteUnified"
    /\ gutter = FALSE
    /\ opts = << >>

InitLines ==
    /\ \E a \in SeqsUpTo(Alphabet, MaxLen), b \in SeqsUpTo(Alphabet, MaxLen) :
        LinesEntry(a, b)
    /\ WriterIdle
    /\ GdiffIdle

NextLines == SearchStep \/ WalkStep

SpecLines == InitLines /\ [][NextLines]_vars

--------------------------------------------------------------------------
(* WriteUnified *)

\* OpType.String: the glyph of an operation.
String(op) ==
    CASE op = Ins -> "+"
      [] op = Del -> "-"
      [] op = Eq -> " "

\* writeLine: the text, then the marker line when a non-empty text does not
\* end with '\n' (marker stands for "\n\\ No newline at end of file\n").
writeLine(s) ==
    [text |-> s, marker |-> Len(s) > 0 /\ s[Len(s)] # "\n"]

\* Mutant of writeEdit: the new line is written for every edit.
writeEdit_NewOnly(e) ==
    LET ln == writeLine(e.NewLine)
    IN  [kind |-> "edit", glyph |-> String(e.Op), text |-> ln.text, marker |-> ln.marker]

\* writeEdit: the glyph, then the old line of a Del and the new line otherwise.
writeEdit(e) ==
    LET ln == writeLine(IF e.Op = Del THEN e.OldLine ELSE e.NewLine)
    IN  [kind |-> "edit", glyph |-> String(e.Op), text |-> ln.text, marker |-> ln.marker]

\* Mutant of writeHunkHeader: a count of 1 on the old side omits the count of
\* both sides.
writeHunkHeader_OmitBoth(oldStart, oldCount, newStart, newCount) ==
    IF oldCount # 1 /\ newCount # 1
    THEN [kind |-> "header", old |-> <<oldStart, oldCount>>, new |-> <<newStart, newCount>>]
    ELSE IF oldCount = 1
    THEN [kind |-> "header", old |-> <<oldStart>>, new |-> <<newStart>>]
    ELSE [kind |-> "header", old |-> <<oldStart, oldCount>>, new |-> <<newStart>>]

\* writeHunkHeader: "@@ -old +new @@\n", where a side is start,count and the
\* count is left out when it is 1.
writeHunkHeader(oldStart, oldCount, newStart, newCount) ==
    IF oldCount # 1 /\ newCount # 1
    THEN [kind |-> "header", old |-> <<oldStart, oldCount>>, new |-> <<newStart, newCount>>]
    ELSE IF oldCount = 1 /\ newCount = 1
    THEN [kind |-> "header", old |-> <<oldStart>>, new |-> <<newStart>>]
    ELSE IF oldCount = 1
    THEN [kind |-> "header", old |-> <<oldStart>>, new |-> <<newStart, newCount>>]
    ELSE [kind |-> "header", old |-> <<oldStart, oldCount>>, new |-> <<newStart>>]

\* Mutant of writeHunk: the loop over the edits starts one edit late.
writeHunk_SkipFirst(es, hs, end, so, co, sn, cn) ==
    <<writeHunkHeader(so, co, sn, cn)>>
        \o [j \in 1 .. end - hs - 1 |-> writeEdit(es[hs + 1 + j])]

\* Write, writeLine: whether s ends with '\n'.
hasNewline(s) == Len(s) > 0 /\ s[Len(s)] = "\n"

Visible_Verbatim(r) == r

\* Write, writeLine: a rune of a changed line as it is written.
Visible(r) == IF r = " " THEN "·" ELSE IF r = "\t" THEN "→" ELSE r

\* Write, writeLine: what is written for the text s.  text is what precedes
\* the end of the line, nl whether a "\n" is then written on its own, marker
\* whether "\n\\ No newline at end of file\n" is.
writeLineW(s, replace, showNewlineMark, g) ==
    IF replace
    THEN LET content == IF hasNewline(s) THEN SubSeq(s, 1, Len(s) - 1) ELSE s
         IN  [text |-> IF Len(content) = 0 /\ hasNewline(s)
                       THEN <<"↵">>
                       ELSE [j \in 1 .. Len(content) |-> Visible(content[j])]
                            \o (IF showNewlineMark THEN <<"↵">> ELSE << >>),
              nl |-> TRUE,
              marker |-> FALSE]
    ELSE [text |-> s,
          nl |-> ~hasNewline(s) /\ g,
          marker |-> ~hasNewline(s) /\ ~g]

RECURSIVE Decimal(_)
\* fmt's %d of a number that is not negative.
Decimal(num) ==
    LET digit == <<"0", "1", "2", "3", "4", "5", "6", "7", "8", "9">>[(num % 10) + 1]
    IN  IF num < 10 THEN <<digit>> ELSE Append(Decimal(num \div 10), digit)

\* Write, writeEdit: in gutter format the old line number and a space (two
\* spaces for an Ins), the glyph, " │ " and the line with whitespace made
\* visible unless the edit is an Eq; otherwise the glyph and the line.
writeEditW(e, oldLine, showNewlineMark, g) ==
    LET line == IF e.Op = Del THEN e.OldLine ELSE e.NewLine
        ln == writeLineW(line, g /\ e.Op # Eq, g /\ showNewlineMark, g)
    IN  IF g
        THEN [kind |-> "edit",
              num |-> IF e.Op # Ins THEN Append(Decimal(oldLine), " ") ELSE <<" ", " ">>,
              glyph |-> String(e.Op), text |-> ln.text, nl |-> ln.nl, marker |-> ln.marker]
        ELSE [kind |-> "edit", glyph |-> String(e.Op), text |-> ln.text, marker |-> ln.marker]

showNewlineMark_Swapped(es, hs, end, j, g) ==
    LET e == es[j + 1]
        line == IF e.Op = Del THEN e.OldLine ELSE e.NewLine
    IN  /\ g
        /\ e.Op \in {Del, Ins}
        /\ IF e.Op = Del /\ j + 1 < end /\ es[j + 2].Op = Ins
           THEN ~hasNewline(line) /\ hasNewline(es[j + 2].NewLine)
           ELSE IF e.Op = Ins /\ j - 1 >= hs /\ es[j].Op = Del
           THEN ~hasNewline(line) /\ hasNewline(es[j].OldLine)
           ELSE FALSE

\* Write, writeHunk: whether the edit at index j (0-indexed) of a hunk from hs
\* up to end is the side with a final '\n' of a Del/Ins pair whose other side
\* has none.
showNewlineMark(es, hs, end, j, g) ==
    LET e == es[j + 1]
        line == IF e.Op = Del THEN e.OldLine ELSE e.NewLine
    IN  /\ g
        /\ e.Op \in {Del, Ins}
        /\ IF e.Op = Del /\ j + 1 < end /\ es[j + 2].Op = Ins
           THEN hasNewline(line) /\ ~hasNewline(es[j + 2].NewLine)
           ELSE IF e.Op = Ins /\ j - 1 >= hs /\ es[j].Op = Del
           THEN hasNewline(line) /\ ~hasNewline(es[j].OldLine)
           ELSE FALSE

\* Write, writeHunk: the header unless in gutter format, then the edits from hs
\* up to but not including end; oldLine starts at so and advances past every
\* edit that is not an Ins.
writeHunkW(es, hs, end, so, co, sn, cn, g) ==
    (IF g THEN << >> ELSE <<writeHunkHeader(so, co, sn, cn)>>)
        \o [j \in 1 .. end - hs |->
                writeEditW(es[hs + j],
                           so + Cardinality({q \in 1 .. j - 1 : es[hs + q].Op # Ins}),
                           showNewlineMark(es, hs, end, hs + j - 1, g), g)]

\* writeHunk: the header, then the edits from hs up to but not including end.
writeHunk(es, hs, end, so, co, sn, cn) ==
    <<writeHunkHeader(so, co, sn, cn)>> \o [j \in 1 .. end - hs |-> writeEdit(es[hs + j])]

\* The number of writes to uw.w that make an element of the output: one
\* Fprintf for a header; the glyph, the text and the marker for an edit.
Writes(o) ==
    IF o.kind = "header" THEN 1
    ELSE IF "num" \in DOMAIN o
    THEN 3 + (IF o.glyph # " " THEN Len(o.text) + 1 ELSE IF o.nl THEN 2 ELSE 1)
    ELSE IF o.marker THEN 3 ELSE 2

\* The bufio.Writer uw.w.
Bufio == [n |-> buffered, calls |-> sink, err |-> werr]

\* Mutant of Flush: an empty buffer is handed to the sink too.
Flush_Always(b) ==
    IF b.err THEN b
    ELSE LET ok == Len(b.calls) + 1 # failAt
         IN  [n |-> IF ok THEN 0 ELSE b.n,
              calls |-> Append(b.calls, [n |-> b.n, ok |-> ok, from |-> "bufio"]),
              err |-> ~ok]

\* bufio.Writer.Flush: the buffer is handed to the sink in one Write call when
\* it is not empty; a failure of the sink is kept in err, and once err is
\* set nothing is handed to the sink.
Flush(b) ==
    IF b.err \/ b.n = 0 THEN b
    ELSE LET ok == Len(b.calls) + 1 # failAt
         IN  [n |-> IF ok THEN 0 ELSE b.n,
              calls |-> Append(b.calls, [n |-> b.n, ok |-> ok, from |-> "bufio"]),
              err |-> ~ok]

\* bufio.Writer.WriteString, and Write: a write that does not fit flushes the
\* buffer first; with err set the write is refused.
WriteString(b) ==
    IF b.err THEN b
    ELSE IF b.n >= bufCap
    THEN LET f == Flush(b)
         IN  IF f.err THEN f ELSE [f EXCEPT !.n = 1]
    ELSE [b EXCEPT !.n = b.n + 1]

RECURSIVE WriteStrings(_, _)
\* cnt writes in a row, each made only when the one before returned no error.
WriteStrings(b, cnt) ==
    IF cnt = 0 \/ b.err THEN b ELSE WriteStrings(WriteString(b), cnt - 1)

RECURSIVE WriteAll(_, _, _)
\* The elements of items written to b in order up to the first error: the
\* writer after it and the elements written without error (done).
WriteAll(b, items, done) ==
    IF done = Len(items) THEN [b |-> b, done |-> done]
    ELSE LET after == WriteStrings(b, Writes(items[done + 1]))
         IN  IF after.err THEN [b |-> after, done |-> done]
             ELSE WriteAll(after, items, done + 1)

\* Mutant of Err: the error of the writer is not returned.
Err_Nil(b) == "nil"

\* The error value returned for the state of uw.w.
Err(b) == IF b.err THEN "err" ELSE "nil"

\* What writeHunk writes, by the function that was called.
hunkOutput(es, hs, end, so, co, sn, cn) ==
    IF fn = "Write" THEN writeHunkW(es, hs, end, so, co, sn, cn, gutter)
    ELSE writeHunk(es, hs, end, so, co, sn, cn)

\* The record of one call of writeHunk.
HunkCall(hs, end, so, co, sn, cn) ==
    [hunkStart |-> hs, end |-> end, startOld |-> so, countOld |-> co,
     startNew |-> sn, countNew |-> cn]

\* Mutant of hunkEnds: hunks separated by exactly 2*context lines are split.
hunkEnds_AtThreshold(eqc, ctx) == eqc + 1 >= 2 * ctx

\* Mutant of hunkEnds: the hunk ends after context + 1 Eq edits.
hunkEnds_Early(eqc, ctx) == eqc + 1 > ctx

\* Mutant of hunkEnds: minus for times.
hunkEnds_Minus(eqc, ctx) == eqc + 1 > 2 - ctx

\* Mutant of hunkEnds: the hunk ends one Eq edit late.
hunkEnds_Late(eqc, ctx) == eqc + 1 > 2 * ctx + 1

\* Mutant of hunkEnds: an Eq edit never ends the hunk.
hunkEnds_Never(eqc, ctx) == FALSE

\* Whether the Eq edit that follows eqc consecutive Eq edits ends the hunk.
hunkEnds(eqc, ctx) == eqc + 1 > 2 * ctx

\* Mutant of trailingAdjust: the Eq edits counted while waiting are kept.
trailingAdjust_None(eqc, ctx) == 0

\* The Eq edits counted beyond the trailing context while waiting for a merge.
trailingAdjust(eqc, ctx) == IF ctx > 0 /\ eqc > ctx THEN eqc - ctx ELSE 0

\* Mutant of eqStart: with no context the deferred start is the line of the
\* Eq edit, as it is with context.
eqStart_NoStepBack(so, sn, lo, ln, ctx) ==
    IF so = 0 THEN <<lo, sn>> ELSE IF sn = 0 THEN <<so, ln>> ELSE <<so, sn>>

\* The start lines after an Eq edit of an open hunk, as <<startOld, startNew>>:
\* the side that did not initiate the hunk gets its start line.
eqStart(so, sn, lo, ln, ctx) ==
    IF ctx > 0
    THEN IF so = 0 THEN <<lo, sn>> ELSE IF sn = 0 THEN <<so, ln>> ELSE <<so, sn>>
    ELSE IF so = 0 THEN <<lo - 1, sn>> ELSE IF sn = 0 THEN <<so, ln - 1>> ELSE <<so, sn>>

\* Mutant of openStart: min for max.
openStart_Min(idx, ctx) == Min(0, idx - ctx)

\* The index at which a hunk opened by the edit at idx starts.
openStart(idx, ctx) == Max(0, idx - ctx)

\* Mutant of ownStart: the leading context is not subtracted.
ownStart_AtChange(line, before) == line

\* The start line of the side that opens a hunk with before lines of context.
ownStart(line, before) == line - before

otherStart_FirstLine(line, before, cur) == IF before > 0 THEN line - before + 1 ELSE cur

\* The start line of the other side when a hunk opens: deferred (cur) when
\* there is no context before.
otherStart(line, before, cur) == IF before > 0 THEN line ELSE cur

\* The start line of the other side at a later Ins or Del of an open hunk.
lateStart(cur, line) == IF cur = 0 THEN line ELSE cur

\* The start lines when the remaining hunk is flushed, as <<startOld, startNew>>.
flushStart(so, sn, lo, ln) ==
    IF so = 0 THEN <<lo, sn>> ELSE IF sn = 0 THEN <<so, ln>> ELSE <<so, sn>>

\* Mutant of closedHunk: the count of equal lines is not reset.
closedHunk_KeepsEqCount ==
    [hunkStart |-> -1, hunkEnd |-> -1, startNew |-> 0, startOld |-> 0,
     eqCount |-> eqCount, countNew |-> 0, countOld |-> 0]

\* The fields of the writer after it wrote a hunk in the loop: no hunk is open.
closedHunk ==
    [hunkStart |-> -1, hunkEnd |-> -1, startNew |-> 0, startOld |-> 0,
     eqCount |-> 0, countNew |-> 0, countOld |-> 0]

\* An iteration of the loop of write on an Eq edit.  When writeHunk returns
\* an error, write and WriteUnified return it at once.
WriteEq ==
    /\ upc = "loop"
    /\ i < Len(uwEdits)
    /\ uwEdits[i + 1].Op = Eq
    /\ lineNew' = lineNew + 1
    /\ lineOld' = lineOld + 1
    /\ IF hunkStart >= 0
       THEN LET st == eqStart(startOld, startNew, lineOld + 1, lineNew + 1, context)
                adjust == trailingAdjust(eqCount, context)
                wr == WriteAll(Bufio, hunkOutput(uwEdits, hunkStart, i - adjust, st[1],
                                                countOld - adjust, st[2], countNew - adjust), 0)
            IN  IF hunkEnds(eqCount, context)
                THEN /\ out' = out \o SubSeq(hunkOutput(uwEdits, hunkStart, i - adjust, st[1],
                                                       countOld - adjust, st[2],
                                                       countNew - adjust), 1, wr.done)
                     /\ hunks' = Append(hunks, HunkCall(hunkStart, i - adjust, st[1],
                                                        countOld - adjust, st[2], countNew - adjust))
                     /\ buffered' = wr.b.n
                     /\ sink' = wr.b.calls
                     /\ werr' = wr.b.err
                     /\ IF wr.b.err
                        THEN /\ ret' = Err(wr.b)
                             /\ upc' = "done"
                             /\ hunkEnd' = i - adjust
                             /\ startOld' = st[1]
                             /\ startNew' = st[2]
                             /\ countNew' = countNew - adjust
                             /\ countOld' = countOld - adjust
                             /\ UNCHANGED <<hunkStart, eqCount, i>>
                        ELSE /\ hunkStart' = closedHunk.hunkStart
                             /\ hunkEnd' = closedHunk.hunkEnd
                             /\ startNew' = closedHunk.startNew
                             /\ startOld' = closedHunk.startOld
                             /\ eqCount' = closedHunk.eqCount
                             /\ countNew' = closedHunk.countNew
                             /\ countOld' = closedHunk.countOld
                             /\ i' = i + 1
                             /\ UNCHANGED <<upc, ret>>
                ELSE /\ hunkEnd' = i
                     /\ startOld' = st[1]
                     /\ startNew' = st[2]
                     /\ eqCount' = eqCount + 1
                     /\ countNew' = countNew + 1
                     /\ countOld' = countOld + 1
                     /\ i' = i + 1
                     /\ UNCHANGED <<hunkStart, upc>>
                     /\ UNCHANGED sinkVars
       ELSE /\ i' = i + 1
            /\ UNCHANGED <<hunkStart, hunkEnd, startOld, startNew, eqCount, countOld,
                           countNew, upc>>
            /\ UNCHANGED sinkVars
    /\ UNCHANGED <<uwEdits, context, bufCap, failAt, saved, fn, gutter, opts>>
    /\ UNCHANGED linesVars
    /\ UNCHANGED gdiffVars

\* An iteration of the loop of write on an Ins edit.
WriteIns ==
    /\ upc = "loop"
    /\ i < Len(uwEdits)
    /\ uwEdits[i + 1].Op = Ins
    /\ lineNew' = lineNew + 1
    /\ eqCount' = 0
    /\ hunkEnd' = i
    /\ i' = i + 1
    /\ IF hunkStart < 0
       THEN LET hs == openStart(i, context)
                before == i - hs
            IN  /\ hunkStart' = hs
                /\ countOld' = countOld + before
                /\ countNew' = countNew + 1 + before
                /\ startOld' = otherStart(lineOld, before, startOld)
                /\ startNew' = ownStart(lineNew + 1, before)
       ELSE /\ startNew' = lateStart(startNew, lineNew + 1)
            /\ countNew' = countNew + 1
            /\ UNCHANGED <<hunkStart, countOld, startOld>>
    /\ UNCHANGED <<uwEdits, context, upc, lineOld, bufCap, failAt, saved, fn, gutter, opts>>
    /\ UNCHANGED sinkVars
    /\ UNCHANGED linesVars
    /\ UNCHANGED gdiffVars

\* An iteration of the loop of write on a Del edit.
WriteDel ==
    /\ upc = "loop"
    /\ i < Len(uwEdits)
    /\ uwEdits[i + 1].Op = Del
    /\ lineOld' = lineOld + 1
    /\ eqCount' = 0
    /\ hunkEnd' = i
    /\ i' = i + 1
    /\ IF hunkStart < 0
       THEN LET hs == openStart(i, context)
                before == i - hs
            IN  /\ hunkStart' = hs
                /\ countOld' = countOld + 1 + before
                /\ countNew' = countNew + before
                /\ startNew' = otherStart(lineNew, before, startNew)
                /\ startOld' = ownStart(lineOld + 1, before)
       ELSE /\ startOld' = lateStart(startOld, lineOld + 1)
            /\ countOld' = countOld + 1
            /\ UNCHANGED <<hunkStart, countNew, startNew>>
    /\ UNCHANGED <<uwEdits, context, upc, lineNew, bufCap, failAt, saved, fn, gutter, opts>>
    /\ UNCHANGED sinkVars
    /\ UNCHANGED linesVars
    /\ UNCHANGED gdiffVars

\* The end of write after the loop, and the return of WriteUnified: the
\* remaining hunk is written; unless that fails, uw.w is flushed.
WriteFlush ==
    /\ upc = "loop"
    /\ i = Len(uwEdits)
    /\ upc' = "done"
    /\ IF hunkStart >= 0
       THEN LET st == flushStart(startOld, startNew, lineOld, lineNew)
                adjust == trailingAdjust(eqCount, context)
                wr == WriteAll(Bufio, hunkOutput(uwEdits, hunkStart, hunkEnd - adjust + 1, st[1],
                                                countOld - adjust, st[2], countNew - adjust), 0)
                fl == IF wr.b.err THEN wr.b ELSE Flush(wr.b)
            IN  /\ startOld' = st[1]
                /\ startNew' = st[2]
                /\ countOld' = countOld - adjust
                /\ countNew' = countNew - adjust
                /\ hunkEnd' = hunkEnd - adjust
                /\ out' = out \o SubSeq(hunkOutput(uwEdits, hunkStart, hunkEnd - adjust + 1,
                                                  st[1], countOld - adjust, st[2],
                                                  countNew - adjust), 1, wr.done)
                /\ hunks' = Append(hunks, HunkCall(hunkStart, hunkEnd - adjust + 1, st[1],
                                                   countOld - adjust, st[2], countNew - adjust))
                /\ buffered' = fl.n
                /\ sink' = fl.calls
                /\ werr' = fl.err
                /\ ret' = Err(fl)
       ELSE /\ buffered' = Flush(Bufio).n
            /\ sink' = Flush(Bufio).calls
            /\ werr' = Flush(Bufio).err
            /\ ret' = Err(Flush(Bufio))
            /\ UNCHANGED <<startOld, startNew, countOld, countNew, hunkEnd, out, hunks>>
    /\ UNCHANGED <<uwEdits, context, eqCount, lineOld, lineNew, hunkStart, i, bufCap,
                   failAt, saved, fn, gutter, opts>>
    /\ UNCHANGED linesVars
    /\ UNCHANGED gdiffVars

\* The edits an edit list given to WriteUnified is made of.
EditChoices ==
    UNION {{Edit(Ins, << >>, t), Edit(Del, t, << >>), Edit(Eq, t, t)} : t \in WriterLines}

\* The state on entry of write, called by WriteUnified(w, es, ctx).
WriteUnifiedEntry(es, ctx) ==
    /\ uwEdits = es
    /\ context = ctx
    /\ eqCount = 0
    /\ lineOld = 0
    /\ lineNew = 0
    /\ hunkStart = -1
    /\ hunkEnd = -1
    /\ startOld = 0
    /\ startNew = 0
    /\ countOld = 0
    /\ countNew = 0
    /\ i = 0
    /\ upc = "loop"
    /\ out = << >>
    /\ hunks = << >>
    /\ buffered = 0
    /\ werr = FALSE
    /\ sink = << >>
    /\ ret = "none"
    /\ fn = "WriteUnified"
    /\ gutter = FALSE
    /\ opts = << >>

\* The sink given to WriteUnified and the buffer bufio.NewWriter puts before
\* it: the output of the bounded edit lists is shorter than DefaultBufSize.
SinkEntry(cap, fail) ==
    /\ bufCap = cap
    /\ failAt = fail

\* The variables of Lines when Lines is not run.
LinesIdle ==
    /\ oldLines = << >>
    /\ newLines = << >>
    /\ pc = "idle"
    /\ v = [j \in 0 .. 0 |-> 0]
    /\ trace = << >>
    /\ d = 0
    /\ k = 0
    /\ x = 0
    /\ y = 0
    /\ edits = << >>
    /\ result = << >>

InitWrite ==
    /\ \E es \in SeqsUpTo(EditChoices, MaxEdits), ctx \in 0 .. MaxContext :
        WriteUnifiedEntry(es, ctx)
    /\ SinkEntry(DefaultBufSize, 0)
    /\ saved = << >>
    /\ LinesIdle
    /\ GdiffIdle

NextWrite == WriteEq \/ WriteIns \/ WriteDel \/ WriteFlush

SpecWrite == InitWrite /\ [][NextWrite]_vars

\* The edits of the edit lists whose texts vary; one Eq edit has fields that
\* differ.
TextEditChoices ==
    UNION {{Edit(Ins, << >>, t), Edit(Del, t, << >>), Edit(Eq, t, t)} : t \in TextLines}
        \cup {Edit(Eq, <<"l">>, <<"l", "\n">>)}

\* WriteUnified on edit lists with varying texts.
InitText ==
    /\ \E es \in SeqsUpTo(TextEditChoices, MaxTextEdits), ctx \in 0 .. MaxContext :
        WriteUnifiedEntry(es, ctx)
    /\ SinkEntry(DefaultBufSize, 0)
    /\ saved = << >>
    /\ LinesIdle
    /\ GdiffIdle

SpecText == InitText /\ [][NextWrite]_vars

\* WriteUnified on a sink that may fail, behind a buffer that fills: the
\* buffer holds cap writes, which stands for an output longer than the buffer.
InitSink ==
    /\ \E es \in SeqsUpTo(EditChoices, MaxSinkEdits), ctx \in 0 .. MaxContext :
        WriteUnifiedEntry(es, ctx)
    /\ \E cap \in (1 .. MaxBufCap) \cup {DefaultBufSize}, fail \in 0 .. MaxFailAt :
        SinkEntry(cap, fail)
    /\ saved = << >>
    /\ LinesIdle
    /\ GdiffIdle

SpecSink == InitSink /\ [][NextWrite]_vars

\* A second call of WriteUnified on the same edit list with the context raised
\* by one, after a first call that returned nil; the hunks of the first call
\* are kept for comparison.
WriteUnifiedAgain ==
    /\ upc = "done"
    /\ ret = "nil"
    /\ saved = << >>
    /\ saved' = <<hunks>>
    /\ context' = context + 1
    /\ eqCount' = 0
    /\ lineOld' = 0
    /\ lineNew' = 0
    /\ hunkStart' = -1
    /\ hunkEnd' = -1
    /\ startOld' = 0
    /\ startNew' = 0
    /\ countOld' = 0
    /\ countNew' = 0
    /\ i' = 0
    /\ upc' = "loop"
    /\ out' = << >>
    /\ hunks' = << >>
    /\ buffered' = 0
    /\ werr' = FALSE
    /\ sink' = << >>
    /\ ret' = "none"
    /\ UNCHANGED <<uwEdits, bufCap, failAt, fn, gutter, opts>>
    /\ UNCHANGED linesVars
    /\ UNCHANGED gdiffVars

InitMono ==
    /\ \E es \in SeqsUpTo(EditChoices, MaxMonoEdits), ctx \in 0 .. MaxContext :
        WriteUnifiedEntry(es, ctx)
    /\ SinkEntry(DefaultBufSize, 0)
    /\ saved = << >>
    /\ LinesIdle
    /\ GdiffIdle

NextMono == NextWrite \/ WriteUnifiedAgain

SpecMono == InitMono /\ [][NextMono]_vars

\* WriteUnified called with a negative context.
InitNeg ==
    /\ \E es \in SeqsUpTo(EditChoices, MaxSinkEdits), ctx \in -MaxNegContext .. -1 :
        WriteUnifiedEntry(es, ctx)
    /\ SinkEntry(DefaultBufSize, 0)
    /\ saved = << >>
    /\ LinesIdle
    /\ GdiffIdle

SpecNeg == InitNeg /\ [][NextWrite]_vars

(***************************************************************************)
(* Write and its options *)
(***************************************************************************)

\* An option expression at the call site of Write: WithContext(lines) or
\* WithGutter.
WithContext(lines) == [name |-> "WithContext", lines |-> lines]
WithGutter == [name |-> "WithGutter", lines |-> 0]

\* The options given to Write.
OptChoices == {WithContext(l) : l \in -MaxNegContext .. MaxContext} \cup {WithGutter}

WithContextPanics_Never(lines) == FALSE

\* WithContext: whether the call panics.
WithContextPanics(lines) == lines < 0

\* An option applied to the configuration.
Apply(conf, o) ==
    IF o.name = "WithContext"
    THEN [conf EXCEPT !.context = o.lines]
    ELSE [conf EXCEPT !.gutter = TRUE]

RECURSIVE Configure(_, _)
\* Write: the options applied in order.
Configure(conf, os) ==
    IF os = << >> THEN conf ELSE Configure(Apply(conf, Head(os)), Tail(os))

\* The state before a call Write(w, es, os...) whose arguments are not yet
\* evaluated.
WriteEntry(es, os) ==
    /\ uwEdits = es
    /\ opts = os
    /\ fn = "Write"
    /\ upc = "call"
    /\ context = 0
    /\ gutter = FALSE
    /\ eqCount = 0
    /\ lineOld = 0
    /\ lineNew = 0
    /\ hunkStart = -1
    /\ hunkEnd = -1
    /\ startOld = 0
    /\ startNew = 0
    /\ countOld = 0
    /\ countNew = 0
    /\ i = 0
    /\ out = << >>
    /\ hunks = << >>
    /\ buffered = 0
    /\ werr = FALSE
    /\ sink = << >>
    /\ ret = "none"

\* The call of Write: the option expressions are evaluated, and WithContext
\* panics on a negative number before Write is entered; otherwise Write
\* starts from context 3, applies the options and sets up the writer.
WriteCall ==
    /\ upc = "call"
    /\ IF \E j \in 1 .. Len(opts) :
            opts[j].name = "WithContext" /\ WithContextPanics(opts[j].lines)
       THEN /\ upc' = "panic"
            /\ UNCHANGED <<context, gutter>>
       ELSE LET conf == Configure([context |-> DefaultContext, gutter |-> FALSE], opts)
            IN  /\ context' = conf.context
                /\ gutter' = conf.gutter
                /\ upc' = "loop"
    /\ UNCHANGED <<uwEdits, eqCount, lineOld, lineNew, hunkStart, hunkEnd, startOld,
                   startNew, countOld, countNew, i, out, hunks, bufCap, buffered,
                   werr, sink, failAt, ret, saved, fn, opts>>
    /\ UNCHANGED linesVars
    /\ UNCHANGED gdiffVars

InitOpts ==
    /\ \E es \in SeqsUpTo(EditChoices, MaxOptEdits), os \in SeqsUpTo(OptChoices, MaxOpts) :
        WriteEntry(es, os)
    /\ SinkEntry(DefaultBufSize, 0)
    /\ saved = << >>
    /\ LinesIdle
    /\ GdiffIdle

NextOpts == WriteCall \/ NextWrite

SpecOpts == InitOpts /\ [][NextOpts]_vars

\* Line texts with spaces, tabs, a final '\n' or none, blank and empty.
GutterLines == {<<" ", "\t", "l", "\n">>, <<"\n">>, <<" ", "l">>, << >>}

GutterEditChoices ==
    UNION {{Edit(Ins, << >>, t), Edit(Del, t, << >>), Edit(Eq, t, t)} : t \in GutterLines}

\* Write(w, es, WithContext(c), WithGutter) on edit lists whose texts vary.
InitGutter ==
    /\ \E es \in SeqsUpTo(GutterEditChoices, MaxGutterEdits), c \in 0 .. MaxGutterContext :
        WriteEntry(es, <<WithContext(c), WithGutter>>)
    /\ SinkEntry(DefaultBufSize, 0)
    /\ saved = << >>
    /\ LinesIdle
    /\ GdiffIdle

SpecGutter == InitGutter /\ [][NextOpts]_vars

\* Write(w, es, WithContext(c), WithGutter) on edit lists that start with a
\* run of Eq edits.
InitGutterWide ==
    /\ \E p \in 0 .. MaxPrefix, es \in SeqsUpTo(EditChoices, MaxWideEdits), c \in 0 .. MaxContext :
        WriteEntry([j \in 1 .. p |-> Edit(Eq, <<"l", "\n">>, <<"l", "\n">>)] \o es,
                   <<WithContext(c), WithGutter>>)
    /\ SinkEntry(DefaultBufSize, 0)
    /\ saved = << >>
    /\ LinesIdle
    /\ GdiffIdle

SpecGutterWide == InitGutterWide /\ [][NextOpts]_vars

(***************************************************************************)
(* gdiff *)
(***************************************************************************)

RECURSIVE SplitAfter(_)
\* strings.SplitAfter(data, "\n"): the pieces of data, each up to and with
\* its "\n"; the last piece is what follows the last "\n" and may be empty.
SplitAfter(data) ==
    LET nls == {j \in 1 .. Len(data) : data[j] = "\n"}
    IN  IF nls = {} THEN <<data>>
        ELSE LET first == CHOOSE j \in nls : \A q \in nls : j <= q
             IN  <<SubSeq(data, 1, first)>> \o SplitAfter(SubSeq(data, first + 1, Len(data)))

\* Mutant of readLines: the empty piece after a final "\n" is kept.
readLines_KeepLast(data) ==
    IF Len(data) = 0 THEN << >> ELSE SplitAfter(data)

\* readLines: the lines of a file that was read, nil for an empty file.
readLines(data) ==
    IF Len(data) = 0 THEN << >>
    ELSE LET lines == SplitAfter(data)
         IN  IF lines[Len(lines)] = << >> THEN SubSeq(lines, 1, Len(lines) - 1) ELSE lines

runCode_NoDiff(fr) == IF fr.err THEN 2 ELSE 0

\* run: the exit code for what files returned.
runCode(fr) == IF fr.err THEN 2 ELSE IF fr.hasDiff THEN 1 ELSE 0

writesFileHeader_Always(g) == TRUE

\* files: whether the file header is written before Write is called.
writesFileHeader(g) == ~g

\* A file of the file system: whether os.Stat finds it, whether os.ReadFile
\* reads it, and its bytes.
FileChoices ==
    {[exists |-> FALSE, readable |-> FALSE, data |-> << >>],
     [exists |-> TRUE, readable |-> FALSE, data |-> << >>]}
        \cup {[exists |-> TRUE, readable |-> TRUE, data |-> t] :
                    t \in SeqsUpTo({"a", "\n"}, MaxFileLen)}

\* A command line: a help request, a flag that does not parse, a wrong number
\* of file names, or two file names with -U and -gutter.
ArgChoices ==
    {[parse |-> pr, narg |-> 0, context |-> DefaultContext, gutter |-> FALSE] :
            pr \in {"help", "error"}}
        \cup {[parse |-> "ok", narg |-> na, context |-> c, gutter |-> g] :
                    na \in 1 .. 3, c \in -1 .. MaxGdiffContext, g \in BOOLEAN}

\* run up to the call of files: a help request returns 0, another parse
\* error 2, and so does a number of file names other than two.
RunParse ==
    /\ gpc = "run"
    /\ IF args.parse # "ok"
       THEN /\ code' = IF args.parse = "help" THEN 0 ELSE 2
            /\ gpc' = "done"
       ELSE IF args.narg # 2
       THEN /\ code' = 2
            /\ gpc' = "done"
       ELSE /\ gpc' = "files"
            /\ UNCHANGED code
    /\ UNCHANGED <<args, fileOld, fileNew, fret>>
    /\ UNCHANGED <<linesVars, writerVars>>

\* files up to the call of Lines: os.Stat of both files, then readLines of
\* both; the first error is returned, and run returns its code.
FilesRead ==
    /\ gpc = "files"
    /\ IF fileOld.exists /\ fileNew.exists /\ fileOld.readable /\ fileNew.readable
       THEN /\ oldLines' = readLines(fileOld.data)
            /\ newLines' = readLines(fileNew.data)
            /\ pc' = IF Len(readLines(fileOld.data)) + Len(readLines(fileNew.data)) = 0
                     THEN "done" ELSE "search"
            /\ v' = [j \in 0 .. 2 * (Len(readLines(fileOld.data))
                                        + Len(readLines(fileNew.data))) |-> 0]
            /\ trace' = << >>
            /\ d' = 0
            /\ k' = 0
            /\ x' = 0
            /\ y' = 0
            /\ edits' = << >>
            /\ result' = << >>
            /\ gpc' = "lines"
            /\ UNCHANGED <<fret, code>>
       ELSE /\ fret' = [hasDiff |-> FALSE, err |-> TRUE]
            /\ code' = runCode([hasDiff |-> FALSE, err |-> TRUE])
            /\ gpc' = "done"
            /\ UNCHANGED linesVars
    /\ UNCHANGED <<args, fileOld, fileNew>>
    /\ UNCHANGED writerVars

\* files from the return of Lines to the call of Write: without an Ins or Del
\* edit it returns false; otherwise WithContext is evaluated, which panics on
\* a negative -U, the file header is written to w unless in gutter format,
\* and Write is called.
FilesDiff ==
    /\ gpc = "lines"
    /\ pc = "done"
    /\ IF \A j \in 1 .. Len(result) : result[j].Op = Eq
       THEN /\ fret' = [hasDiff |-> FALSE, err |-> FALSE]
            /\ code' = runCode([hasDiff |-> FALSE, err |-> FALSE])
            /\ gpc' = "done"
            /\ UNCHANGED writerVars
       ELSE IF WithContextPanics(args.context)
       THEN /\ gpc' = "panic"
            /\ UNCHANGED <<fret, code>>
            /\ UNCHANGED writerVars
       ELSE IF writesFileHeader(args.gutter) /\ Len(sink) + 1 = failAt
       THEN /\ sink' = Append(sink, [n |-> 1, ok |-> FALSE, from |-> "writeFileHeader"])
            /\ fret' = [hasDiff |-> FALSE, err |-> TRUE]
            /\ code' = runCode([hasDiff |-> FALSE, err |-> TRUE])
            /\ gpc' = "done"
            /\ UNCHANGED <<uwEdits, context, eqCount, lineOld, lineNew, hunkStart,
                           hunkEnd, startOld, startNew, countOld, countNew, i, upc,
                           out, hunks, bufCap, buffered, werr, failAt, ret, saved,
                           fn, gutter, opts>>
       ELSE /\ sink' = IF ~writesFileHeader(args.gutter) THEN sink
                       ELSE Append(sink, [n |-> 1, ok |-> TRUE, from |-> "writeFileHeader"])
            /\ uwEdits' = result
            /\ opts' = <<WithContext(args.context)>>
                            \o (IF args.gutter THEN <<WithGutter>> ELSE << >>)
            /\ fn' = "Write"
            /\ upc' = "call"
            /\ gpc' = "write"
            /\ UNCHANGED <<context, eqCount, lineOld, lineNew, hunkStart, hunkEnd,
                           startOld, startNew, countOld, countNew, i, out, hunks,
                           bufCap, buffered, werr, failAt, ret, saved, gutter>>
            /\ UNCHANGED <<fret, code>>
    /\ UNCHANGED <<args, fileOld, fileNew>>
    /\ UNCHANGED linesVars

\* files after Write returned: an error of Write is returned, otherwise true;
\* run returns its code.
FilesWritten ==
    /\ gpc = "write"
    /\ upc = "done"
    /\ fret' = [hasDiff |-> ret = "nil", err |-> ret # "nil"]
    /\ code' = runCode([hasDiff |-> ret = "nil", err |-> ret # "nil"])
    /\ gpc' = "done"
    /\ UNCHANGED <<args, fileOld, fileNew>>
    /\ UNCHANGED <<linesVars, writerVars>>

\* The state on entry of run: the writer is not yet made, w has seen no call.
InitGdiff ==
    /\ \E a \in ArgChoices, fo \in FileChoices, fnew \in FileChoices :
        /\ args = a
        /\ fileOld = fo
        /\ fileNew = fnew
    /\ gpc = "run"
    /\ fret = [hasDiff |-> FALSE, err |-> FALSE]
    /\ code = -1
    /\ uwEdits = << >>
    /\ context = 0
    /\ eqCount = 0
    /\ lineOld = 0
    /\ lineNew = 0
    /\ hunkStart = -1
    /\ hunkEnd = -1
    /\ startOld = 0
    /\ startNew = 0
    /\ countOld = 0
    /\ countNew = 0
    /\ i = 0
    /\ upc = "idle"
    /\ out = << >>
    /\ hunks = << >>
    /\ buffered = 0
    /\ werr = FALSE
    /\ sink = << >>
    /\ ret = "none"
    /\ saved = << >>
    /\ fn = "Write"
    /\ gutter = FALSE
    /\ opts = << >>
    /\ \E fail \in 0 .. 2 : SinkEntry(DefaultBufSize, fail)
    /\ oldLines = << >>
    /\ newLines = << >>
    /\ pc = "idle"
    /\ v = [j \in 0 .. 0 |-> 0]
    /\ trace = << >>
    /\ d = 0
    /\ k = 0
    /\ x = 0
    /\ y = 0
    /\ edits = << >>
    /\ result = << >>

NextGdiff ==
    \/ RunParse
    \/ FilesRead
    \/ SearchStep
    \/ WalkStep
    \/ FilesDiff
    \/ WriteCall
    \/ WriteEq
    \/ WriteIns
    \/ WriteDel
    \/ WriteFlush
    \/ FilesWritten

SpecGdiff == InitGdiff /\ [][NextGdiff]_vars

--------------------------------------------------------------------------
(* Properties of Lines *)

Returned == pc = "done"

IsChange(e) == e.Op # Eq

\* The old lines an edit list consumes, in order.
OldSide(es) ==
    LET sel == SelectSeq(es, LAMBDA e : e.Op \in {Del, Eq})
    IN  [j \in 1 .. Len(sel) |-> sel[j].OldLine]

\* The new lines an edit list produces, in order.
NewSide(es) ==
    LET sel == SelectSeq(es, LAMBDA e : e.Op \in {Ins, Eq})
    IN  [j \in 1 .. Len(sel) |-> sel[j].NewLine]

Changes(es) == Len(SelectSeq(es, IsChange))

RECURSIVE LCS(_, _)
\* Length of a longest common subsequence, by the textbook recurrence.
LCS(s, t) ==
    IF s = << >> \/ t = << >> THEN 0
    ELSE IF Head(s) = Head(t) THEN 1 + LCS(Tail(s), Tail(t))
    ELSE Max(LCS(Tail(s), t), LCS(s, Tail(t)))

Range(s) == {s[j] : j \in 1 .. Len(s)}

AllDel(s) == [j \in 1 .. Len(s) |-> Edit(Del, s[j], << >>)]
AllIns(s) == [j \in 1 .. Len(s) |-> Edit(Ins, << >>, s[j])]
AllEq(s) == [j \in 1 .. Len(s) |-> Edit(Eq, s[j], s[j])]

\* C1: the edit list returned by Lines reconstructs both inputs: the OldLine
\* of its Del and Eq edits, in order, is the old sequence, and the NewLine of
\* its Ins and Eq edits, in order, is the new sequence.
C1_Reconstructs ==
    Returned => OldSide(result) = oldLines /\ NewSide(result) = newLines

C1_Witness ==
    /\ Returned
    /\ \A op \in OpType : \E j \in 1 .. Len(result) : result[j].Op = op
    /\ n >= 2 /\ m >= 2

\* C2: the number of Ins and Del edits of the returned list is the minimal
\* edit distance under single-line insert and delete, n + m - 2 * LCS.
C2_Minimal ==
    Returned => Changes(result) = n + m - 2 * LCS(oldLines, newLines)

C2_Witness ==
    /\ Returned
    /\ LCS(oldLines, newLines) >= 2
    /\ Changes(result) >= 2

\* C3: equal non-empty inputs give one Eq edit per line, in order, with both
\* line fields set to that line, and nothing else.
C3_Identity ==
    (Returned /\ oldLines = newLines /\ n > 0) => result = AllEq(oldLines)

C3_Witness ==
    Returned /\ oldLines = newLines /\ n >= 2 /\ Len(result) = n

\* C4: inputs that share no line give all Del edits of the old sequence in
\* order, then all Ins edits of the new sequence in order, and no Eq edit.
C4_Disjoint ==
    (Returned /\ Range(oldLines) \cap Range(newLines) = {})
        => result = AllDel(oldLines) \o AllIns(newLines)

C4_Witness ==
    /\ Returned
    /\ Range(oldLines) \cap Range(newLines) = {}
    /\ n >= 2 /\ m >= 2
    /\ Len(result) = n + m

\* C5: two empty inputs give the empty list; an empty old sequence gives one
\* Ins per new line in order; an empty new sequence gives one Del per old
\* line in order.
C5_EmptyInput ==
    Returned =>
        /\ (n = 0 /\ m = 0) => result = << >>
        /\ (n = 0 /\ m > 0) => result = AllIns(newLines)
        /\ (m = 0 /\ n > 0) => result = AllDel(oldLines)

C5_Witness ==
    Returned /\ n = 0 /\ m >= 2 /\ Len(result) = m

\* C6: in the returned list no Ins edit is immediately followed by a Del edit.
C6_DelBeforeIns ==
    Returned =>
        \A j \in 1 .. Len(result) - 1 :
            ~(result[j].Op = Ins /\ result[j + 1].Op = Del)

C6_Witness ==
    /\ Returned
    /\ \E j \in 1 .. Len(result) - 1 : result[j].Op = Del /\ result[j + 1].Op = Ins
    /\ \E j \in 1 .. Len(result) : result[j].Op = Eq

\* Whether the inputs are P ++ [x] ++ S and P ++ [y] ++ S with the differing
\* lines at position j and occurring nowhere else in either input.
Substitution(j) ==
    /\ n = m
    /\ j \in 1 .. n
    /\ oldLines[j] # newLines[j]
    /\ \A h \in 1 .. n : h # j =>
        /\ oldLines[h] = newLines[h]
        /\ oldLines[h] \notin {oldLines[j], newLines[j]}

\* C7: a single-line substitution with lines that occur nowhere else is one
\* Eq per line of the prefix, Del of the old line, Ins of the new line, one
\* Eq per line of the suffix.
C7_Substitution ==
    Returned =>
        \A j \in 1 .. n :
            Substitution(j) =>
                result = AllEq(SubSeq(oldLines, 1, j - 1))
                         \o <<Edit(Del, oldLines[j], << >>), Edit(Ins, << >>, newLines[j])>>
                         \o AllEq(SubSeq(oldLines, j + 1, n))

C7_Witness ==
    Returned /\ n = 3 /\ Substitution(2) /\ Len(result) = 4

--------------------------------------------------------------------------
(* Properties of WriteUnified *)

Written == upc = "done"

\* The positions of the elements of seq that satisfy P, in increasing order.
Positions(seq, P(_)) ==
    SelectSeq([j \in 1 .. Len(seq) |-> j], LAMBDA j : P(seq[j]))

\* The positions in the edit list of the Ins and Del edits.
EditChangePos == Positions(uwEdits, IsChange)

IsChangeLine(o) == o.kind = "edit" /\ o.glyph # " "

IsHeader(o) == o.kind = "header"

\* The positions in the output of the lines of the Ins and Del edits.
OutChangePos == Positions(out, IsChangeLine)

\* The hunk headers written, in order.
Headers == SelectSeq(out, IsHeader)

\* The number of headers written strictly between two positions of the output.
HeadersBetween(p, q) == Cardinality({j \in p + 1 .. q - 1 : IsHeader(out[j])})

\* What a side of a header shows.
HeaderStart(side) == side[1]
HeaderCount(side) == IF Len(side) = 2 THEN side[2] ELSE 1

\* The number of old (new) lines of the first cnt edits of the list.
OldBefore(cnt) == Cardinality({j \in 1 .. cnt : uwEdits[j].Op \in {Del, Eq}})
NewBefore(cnt) == Cardinality({j \in 1 .. cnt : uwEdits[j].Op \in {Ins, Eq}})

\* The operations of the edits a call of writeHunk covers.
HunkOps(h) == {uwEdits[j].Op : j \in h.hunkStart + 1 .. h.end}

C9_StartIsFirstLine ==
    Written =>
        /\ Len(Headers) = Len(hunks)
        /\ \A h \in 1 .. Len(hunks) :
            /\ HeaderCount(Headers[h].old) >= 1
                => HeaderStart(Headers[h].old) = OldBefore(hunks[h].hunkStart) + 1
            /\ HeaderCount(Headers[h].new) >= 1
                => HeaderStart(Headers[h].new) = NewBefore(hunks[h].hunkStart) + 1

\* C10: in every hunk written that covers only Ins edits (only Del edits), the
\* old (new) side of the header shows count 0 and, as start, the number of
\* old (new) lines that precede the hunk.
C10_EmptySide ==
    Written =>
        /\ Len(Headers) = Len(hunks)
        /\ \A h \in 1 .. Len(hunks) :
            /\ HunkOps(hunks[h]) = {Ins}
                => Headers[h].old = <<OldBefore(hunks[h].hunkStart), 0>>
            /\ HunkOps(hunks[h]) = {Del}
                => Headers[h].new = <<NewBefore(hunks[h].hunkStart), 0>>

C10_Witness ==
    /\ Written
    /\ \E h \in 1 .. Len(hunks) :
        /\ HunkOps(hunks[h]) = {Ins}
        /\ Headers[h].old = <<1, 0>>
    /\ \E h \in 1 .. Len(hunks) :
        /\ HunkOps(hunks[h]) = {Del}
        /\ Headers[h].new = <<3, 0>>

\* The positions in the output of the hunk headers.
HeaderPos == Positions(out, IsHeader)

\* The positions in the output of the lines written under the h-th header.
Under(h) ==
    HeaderPos[h] + 1 .. (IF h < Len(HeaderPos) THEN HeaderPos[h + 1] - 1 ELSE Len(out))

\* C11: for every hunk written, the old count of its header is the number of
\* Del and Eq lines written under that header and the new count is the number
\* of Ins and Eq lines written under it.
C11_CountsMatchLines ==
    Written =>
        \A h \in 1 .. Len(HeaderPos) :
            /\ HeaderCount(out[HeaderPos[h]].old)
                = Cardinality({j \in Under(h) : out[j].glyph \in {"-", " "}})
            /\ HeaderCount(out[HeaderPos[h]].new)
                = Cardinality({j \in Under(h) : out[j].glyph \in {"+", " "}})

\* A hunk with leading context whose trailing context was trimmed: it ends
\* with an Eq line and two Eq edits that were not written follow it.
C11_Witness ==
    /\ Written
    /\ context >= 1
    /\ \E h \in 1 .. Len(hunks) :
        /\ hunks[h].end + 2 <= Len(uwEdits)
        /\ \A j \in hunks[h].end .. hunks[h].end + 2 : uwEdits[j].Op = Eq
        /\ uwEdits[hunks[h].hunkStart + 1].Op = Eq
        /\ hunks[h].countOld >= 3
        /\ hunks[h].countNew >= 3
        /\ h < Len(hunks)

\* What a side of a header shows for a start and a count.
SideForm(start, count) == IF count = 1 THEN <<start>> ELSE <<start, count>>

\* C12: writeHunkHeader leaves out the count of a side exactly when that
\* count is 1, for each side on its own; a count of 0 or of 2 and more is
\* printed.
C12_CountOmittedIffOne ==
    Written =>
        /\ Len(Headers) = Len(hunks)
        /\ \A h \in 1 .. Len(hunks) :
            /\ Headers[h].old = SideForm(hunks[h].startOld, hunks[h].countOld)
            /\ Headers[h].new = SideForm(hunks[h].startNew, hunks[h].countNew)

\* One output with the forms "-s +s,0", "-s,0 +s" and "-s,0 +s,c" with c >= 2.
C12_Witness ==
    /\ Written
    /\ \E h \in 1 .. Len(Headers) :
        Len(Headers[h].old) = 1 /\ Len(Headers[h].new) = 2 /\ Headers[h].new[2] = 0
    /\ \E h \in 1 .. Len(Headers) :
        Len(Headers[h].old) = 2 /\ Headers[h].old[2] = 0 /\ Len(Headers[h].new) = 1
    /\ \E h \in 1 .. Len(Headers) :
        Len(Headers[h].old) = 2 /\ Len(Headers[h].new) = 2 /\ Headers[h].new[2] >= 2

\* The 1-indexed positions of the edits a call of writeHunk covers.
HunkRange(h) == h.hunkStart + 1 .. h.end

\* The positions of the edit list some hunk covers, in increasing order.
CoveredPos ==
    SelectSeq([j \in 1 .. Len(uwEdits) |-> j],
              LAMBDA j : \E h \in 1 .. Len(hunks) : j \in HunkRange(hunks[h]))

\* The edit lines of the output, in order.
OutEdits == SelectSeq(out, LAMBDA o : ~IsHeader(o))

\* C14: the hunks cover index ranges that increase and are pairwise disjoint,
\* every Ins/Del edit is covered by exactly one hunk and written once, every
\* hunk covers an Ins/Del edit, and the edit lines of the output are the
\* covered edits in the order of the list.
C14_HunksPartition ==
    Written =>
        /\ \A h \in 1 .. Len(hunks) :
            /\ hunks[h].hunkStart >= 0
            /\ hunks[h].end <= Len(uwEdits)
            /\ HunkOps(hunks[h]) \cap {Ins, Del} # {}
        /\ \A h \in 1 .. Len(hunks) - 1 : hunks[h].end <= hunks[h + 1].hunkStart
        /\ \A r \in 1 .. Len(EditChangePos) :
            Cardinality({h \in 1 .. Len(hunks) : EditChangePos[r] \in HunkRange(hunks[h])}) = 1
        /\ Len(OutChangePos) = Len(EditChangePos)
        /\ OutEdits = [j \in 1 .. Len(CoveredPos) |-> writeEdit(uwEdits[CoveredPos[j]])]

C14_Witness ==
    /\ Written
    /\ context >= 1
    /\ Len(hunks) = 2
    /\ hunks[1].end < hunks[2].hunkStart
    /\ {Ins, Del} \subseteq HunkOps(hunks[1])
    /\ Len(OutEdits) >= 5

\* The positions of the first and of the last Ins/Del edit a hunk covers.
FirstChange(h) == CHOOSE j \in HunkRange(h) :
    IsChange(uwEdits[j]) /\ \A q \in HunkRange(h) : IsChange(uwEdits[q]) => j <= q
LastChange(h) == CHOOSE j \in HunkRange(h) :
    IsChange(uwEdits[j]) /\ \A q \in HunkRange(h) : IsChange(uwEdits[q]) => j >= q

\* C15 as stated: between the index ranges of two consecutive hunks lie more
\* than 2*context Eq edits.
C15_GapBetweenRanges ==
    Written =>
        \A h \in 1 .. Len(hunks) - 1 :
            hunks[h + 1].hunkStart - hunks[h].end > 2 * context

\* C15, amended: between the last Ins/Del edit of a hunk and the first Ins/Del
\* edit of the next hunk lie more than 2*context Eq edits, the context lines
\* of both hunks included.
C15_GapBetweenChanges ==
    Written =>
        \A h \in 1 .. Len(hunks) - 1 :
            /\ FirstChange(hunks[h + 1]) - LastChange(hunks[h]) - 1 > 2 * context
            /\ \A j \in LastChange(hunks[h]) + 1 .. FirstChange(hunks[h + 1]) - 1 :
                uwEdits[j].Op = Eq

C15_Witness ==
    /\ Written
    /\ context = 1
    /\ Len(hunks) = 2
    /\ FirstChange(hunks[2]) - LastChange(hunks[1]) - 1 = 3
    /\ hunks[2].hunkStart - hunks[1].end = 1

\* C17: with context 0 no Eq edit is written: the output holds headers and
\* Del and Ins lines only.
C17_NoEqAtContextZero ==
    context = 0 => \A j \in 1 .. Len(out) : IsHeader(out[j]) \/ IsChangeLine(out[j])

C17_Witness ==
    /\ Written
    /\ context = 0
    /\ Len(Headers) = 2
    /\ Len(OutChangePos) = 3
    /\ uwEdits[1].Op = Eq
    /\ uwEdits[Len(uwEdits)].Op = Eq
    /\ Cardinality({j \in 1 .. Len(uwEdits) : uwEdits[j].Op = Eq}) >= 4

\* Whether a text ends with '\n'.
EndsWithNewline(t) == Len(t) > 0 /\ t[Len(t)] = "\n"

\* The text an edit is rendered with: OldLine for Del, NewLine for Ins and Eq.
Rendered(e) == IF e.Op = Del THEN e.OldLine ELSE e.NewLine

\* C13: every covered edit is written as its glyph and its rendered text,
\* followed by '\n' and the "\ No newline at end of file" line exactly when
\* the text does not end with '\n', the empty text included.
C13_MarkerIffNoNewline ==
    Written =>
        /\ Len(OutEdits) = Len(CoveredPos)
        /\ \A j \in 1 .. Len(OutEdits) :
            /\ OutEdits[j].glyph = String(uwEdits[CoveredPos[j]].Op)
            /\ OutEdits[j].text = Rendered(uwEdits[CoveredPos[j]])
            /\ OutEdits[j].marker = ~EndsWithNewline(Rendered(uwEdits[CoveredPos[j]]))

\* C16: the hunks of a call with context c+1 (hunks) against those of the
\* call with context c on the same list (saved): every index covered before
\* is covered, every hunk of before lies inside one hunk, and there are no
\* more hunks than before.
C16_ContextMonotone ==
    (Written /\ saved # << >>) =>
        /\ \A h \in 1 .. Len(saved[1]) :
            \E g \in 1 .. Len(hunks) : HunkRange(saved[1][h]) \subseteq HunkRange(hunks[g])
        /\ UNION {HunkRange(saved[1][h]) : h \in 1 .. Len(saved[1])}
            \subseteq UNION {HunkRange(hunks[g]) : g \in 1 .. Len(hunks)}
        /\ Len(hunks) <= Len(saved[1])

\* Two hunks at context 1 that are one hunk at context 2, which covers more
\* than the two together.
C16_Witness ==
    /\ Written
    /\ saved # << >>
    /\ context = 2
    /\ Len(saved[1]) = 2
    /\ Len(hunks) = 1
    /\ HunkRange(saved[1][1]) \cup HunkRange(saved[1][2]) # HunkRange(hunks[1])

\* C18: for an edit list that is empty or holds Eq edits only, WriteUnified
\* makes no Write call on the sink, writes no header and no line, and returns
\* nil, whatever the sink.
C18_NothingWithoutChange ==
    (Written /\ \A j \in 1 .. Len(uwEdits) : uwEdits[j].Op = Eq) =>
        /\ sink = << >>
        /\ out = << >>
        /\ hunks = << >>
        /\ ret = "nil"

\* Eq edits only, more of them than 2*context + 1, and a sink that fails its
\* first Write call.
C18_Witness ==
    /\ Written
    /\ Len(uwEdits) = 4
    /\ \A j \in 1 .. Len(uwEdits) : uwEdits[j].Op = Eq
    /\ context = 1
    /\ failAt = 1
    /\ ret = "nil"

\* C19: once a Write call on the sink has failed, WriteUnified has returned,
\* it has returned an error, and no later Write call was made on the sink.
C19_ErrorStopsWriting ==
    \A j \in 1 .. Len(sink) :
        ~sink[j].ok => j = Len(sink) /\ upc = "done" /\ ret = "err"

\* The second Write call on the sink failed inside writeHunk, with a change
\* of the list not yet reached.
C19_Witness ==
    /\ Written
    /\ ret = "err"
    /\ Len(sink) = 2
    /\ ~sink[2].ok
    /\ i < Len(uwEdits)
    /\ \E j \in i + 1 .. Len(uwEdits) : IsChange(uwEdits[j])

\* C20: a negative context is rejected before any computation: no edit is
\* processed, nothing is written, and WriteUnified returns an error.
C20_NegativeContextRejected ==
    context < 0 =>
        /\ i = 0
        /\ out = << >>
        /\ sink = << >>
        /\ upc = "done" => ret = "err"

\* The number of consecutive Eq edits immediately before (after) position pos.
EqRunBefore(pos) ==
    Cardinality({q \in 1 .. pos - 1 : \A j \in q .. pos - 1 : uwEdits[j].Op = Eq})
EqRunAfter(pos) ==
    Cardinality({q \in pos + 1 .. Len(uwEdits) : \A j \in pos + 1 .. q : uwEdits[j].Op = Eq})

\* C29: every hunk starts exactly min(context, p) edits before its first
\* Ins/Del edit and ends exactly min(context, q) edits after its last one,
\* p and q being the lengths of the runs of Eq edits next to them; the
\* padding is Eq edits only.
C29_PaddingExact ==
    Written =>
        \A h \in 1 .. Len(hunks) :
            LET first == FirstChange(hunks[h])
                last == LastChange(hunks[h])
            IN  /\ hunks[h].hunkStart + 1 = first - Min(context, EqRunBefore(first))
                /\ hunks[h].end = last + Min(context, EqRunAfter(last))
                /\ \A j \in HunkRange(hunks[h]) : (j < first \/ j > last) => uwEdits[j].Op = Eq

\* A hunk padded with less than context before (start of the list), and a
\* hunk whose trailing run of Eq edits is longer than the context kept.
C29_Witness ==
    /\ Written
    /\ context = 2
    /\ Len(hunks) = 1
    /\ EqRunBefore(FirstChange(hunks[1])) = 1
    /\ EqRunAfter(LastChange(hunks[1])) = 4
    /\ hunks[1].hunkStart = 0
    /\ hunks[1].end = LastChange(hunks[1]) + 2

\* C30: for the side that opens a hunk (old when its first Ins/Del edit is a
\* Del, new when it is an Ins) the header start is that side's line counter
\* at the opening edit minus the leading context edits, which is the line
\* number of the first line of the hunk on that side.
C30_OpeningSideStart ==
    Written =>
        /\ Len(Headers) = Len(hunks)
        /\ \A h \in 1 .. Len(hunks) :
            LET first == FirstChange(hunks[h])
                before == first - 1 - hunks[h].hunkStart
            IN  /\ uwEdits[first].Op = Del =>
                    /\ HeaderStart(Headers[h].old) = OldBefore(first) - before
                    /\ HeaderStart(Headers[h].old) = OldBefore(hunks[h].hunkStart) + 1
                /\ uwEdits[first].Op = Ins =>
                    /\ HeaderStart(Headers[h].new) = NewBefore(first) - before
                    /\ HeaderStart(Headers[h].new) = NewBefore(hunks[h].hunkStart) + 1

\* A hunk opened by an Ins with two lines of leading context and a line on
\* both sides before it.
C30_Witness ==
    /\ Written
    /\ context = 2
    /\ Len(hunks) = 1
    /\ hunks[1].hunkStart = 1
    /\ FirstChange(hunks[1]) = 4
    /\ uwEdits[4].Op = Ins
    /\ Headers[1].new[1] = 2

\* Whether an option of the call is WithContext of a negative number.
NegativeOption == \E j \in 1 .. Len(opts) : opts[j].name = "WithContext" /\ opts[j].lines < 0

\* The number of the last WithContext among the options, 3 when there is none.
LastContext ==
    LET set == {j \in 1 .. Len(opts) : opts[j].name = "WithContext"}
    IN  IF set = {} THEN 3
        ELSE opts[CHOOSE j \in set : \A q \in set : q <= j].lines

\* C21: when an option of the call is WithContext of a negative number, the
\* call panics before Write is entered and nothing is ever written, buffered
\* or returned; otherwise Write runs with the context of the last WithContext
\* option, and with context 3 when there is none.
C21_WithContext ==
    /\ NegativeOption =>
        /\ upc \in {"call", "panic"}
        /\ out = << >> /\ sink = << >> /\ buffered = 0 /\ ret = "none"
    /\ ~NegativeOption /\ upc # "call" =>
        /\ upc \in {"loop", "done"}
        /\ context = LastContext

\* A call with a non-empty edit list and a negative WithContext has panicked.
C21_Witness ==
    /\ upc = "panic"
    /\ NegativeOption
    /\ \E j \in 1 .. Len(uwEdits) : uwEdits[j].Op # Eq

\* A call without WithContext has written a hunk with context 3.
C21_WitnessDefault ==
    /\ Written
    /\ LastContext = 3
    /\ \A j \in 1 .. Len(opts) : opts[j].name # "WithContext"
    /\ out # << >>

(***************************************************************************)
(* Properties of the gutter format *)
(***************************************************************************)

Digit(c) == c \in {"0", "1", "2", "3", "4", "5", "6", "7", "8", "9"}

DigitValue(c) ==
    CHOOSE q \in 0 .. 9 : <<"0", "1", "2", "3", "4", "5", "6", "7", "8", "9">>[q + 1] = c

\* The digits of a gutter prefix, in order.
Digits(num) == SelectSeq(num, Digit)

RECURSIVE NumberOf(_)
\* The number a sequence of digits is the decimal numeral of.
NumberOf(ds) ==
    IF ds = << >> THEN 0
    ELSE 10 * NumberOf(SubSeq(ds, 1, Len(ds) - 1)) + DigitValue(ds[Len(ds)])

\* C22: in gutter format the number at the start of each Del or Eq line is
\* the 1-indexed position of the line in the old sequence, and an Ins line
\* carries no number.
C22_NumberIsOldPosition ==
    Written /\ gutter =>
        /\ Len(out) = Len(CoveredPos)
        /\ \A q \in 1 .. Len(out) :
            LET e == uwEdits[CoveredPos[q]]
            IN  IF e.Op = Ins
                THEN Digits(out[q].num) = << >>
                ELSE /\ Digits(out[q].num) # << >>
                     /\ NumberOf(Digits(out[q].num)) = OldBefore(CoveredPos[q])

\* Whether a gutter prefix is its digits, if any, after spaces only and
\* before one space.
RightAligned(num) ==
    LET ds == Digits(num)
        pad == Len(num) - Len(ds) - 1
    IN  /\ pad >= 0
        /\ num = [j \in 1 .. pad |-> " "] \o ds \o <<" ">>

\* C23: in gutter format the prefixes of all edit lines of one output have
\* the same width, one more than the number of digits of the largest old
\* line number shown; a number is right-aligned in it and the prefix of an
\* Ins line is blank.
C23_SameGutterWidth ==
    Written /\ gutter =>
        /\ \A q \in 1 .. Len(out) : RightAligned(out[q].num)
        /\ \A q, r \in 1 .. Len(out) :
            /\ Len(out[q].num) = Len(out[r].num)
            /\ Len(Digits(out[q].num)) < Len(out[r].num)
        /\ \A q \in 1 .. Len(out) :
            out[q].glyph # "+" /\ (\A r \in 1 .. Len(out) :
                    NumberOf(Digits(out[r].num)) <= NumberOf(Digits(out[q].num)))
                => Len(out[q].num) = Len(Digits(out[q].num)) + 1

\* The text of the edit the q-th line of the output is written for.
LineOf(q) ==
    LET e == uwEdits[CoveredPos[q]]
    IN  IF e.Op = Del THEN e.OldLine ELSE e.NewLine

\* A text without its final '\n', if it has one.
Content(t) == IF EndsWithNewline(t) THEN SubSeq(t, 1, Len(t) - 1) ELSE t

\* C24: in gutter format the line of an Ins or Del edit shows each space of
\* the text as '·', each tab as '→' and every other character as it is, and
\* shows '↵' alone when the text is exactly "\n"; the line of an Eq edit
\* shows the text as it is.
C24_WhitespaceOnChangedLines ==
    Written /\ gutter =>
        /\ Len(out) = Len(CoveredPos)
        /\ \A q \in 1 .. Len(out) :
            LET t == LineOf(q)
                shown == out[q].text
            IN  IF uwEdits[CoveredPos[q]].Op = Eq
                THEN shown = t
                ELSE IF t = <<"\n">>
                THEN shown = <<"↵">>
                ELSE /\ Len(shown) >= Len(Content(t))
                     /\ \A j \in 1 .. Len(Content(t)) :
                            shown[j] = CASE t[j] = " " -> "·"
                                         [] t[j] = "\t" -> "→"
                                         [] OTHER -> t[j]

\* An Eq line with a space and a tab written as they are, a Del line with
\* them made visible and an Ins line of a blank text.
C24_Witness ==
    /\ Written /\ gutter
    /\ Len(out) = 3
    /\ out[1].glyph = " " /\ out[1].text = <<" ", "\t", "l", "\n">>
    /\ out[2].glyph = "-" /\ out[2].text = <<"·", "→", "l">>
    /\ out[3].glyph = "+" /\ out[3].text = <<"↵">> /\ LineOf(3) = <<"\n">>

\* Whether the q-th and the next line of the output are written for a Del
\* edit and the Ins edit right after it in the list, in one hunk.
DelInsPair(q) ==
    /\ q < Len(out)
    /\ uwEdits[CoveredPos[q]].Op = Del
    /\ CoveredPos[q + 1] = CoveredPos[q] + 1
    /\ uwEdits[CoveredPos[q + 1]].Op = Ins
    /\ \E h \in 1 .. Len(hunks) :
        {CoveredPos[q], CoveredPos[q + 1]} \subseteq HunkRange(hunks[h])

\* Whether the q-th line of the output shows the content of its text and
\* then one '↵' (none).
MarkAppended(q) ==
    /\ Len(out[q].text) = Len(Content(LineOf(q))) + 1
    /\ out[q].text[Len(out[q].text)] = "↵"
NoMark(q) == \A j \in 1 .. Len(out[q].text) : out[q].text[j] # "↵"

\* C25: in gutter format, of the lines of a Del edit and of the Ins edit
\* right after it in the same hunk, when exactly one of the two texts ends
\* with '\n' the line of that text has '↵' appended after its content and the
\* other line has no '↵'; and no line of the output is followed by the
\* "\ No newline at end of file" marker.
C25_NewlineAsymmetry ==
    Written /\ gutter =>
        /\ Len(out) = Len(CoveredPos)
        /\ \A q \in 1 .. Len(out) :
            /\ ~out[q].marker
            /\ DelInsPair(q) =>
                /\ EndsWithNewline(LineOf(q)) /\ ~EndsWithNewline(LineOf(q + 1))
                    => MarkAppended(q) /\ NoMark(q + 1)
                /\ ~EndsWithNewline(LineOf(q)) /\ EndsWithNewline(LineOf(q + 1))
                    => NoMark(q) /\ MarkAppended(q + 1)

\* A Del line of a text without a final '\n' and the Ins line of a text with
\* one right after it, which has the '↵'.
C25_Witness ==
    /\ Written /\ gutter
    /\ \E q \in 1 .. Len(out) :
        /\ DelInsPair(q)
        /\ out[q].text = <<"·", "l">>
        /\ out[q + 1].text = <<"·", "→", "l", "↵">>

IsSummary(o) == o.kind = "summary"

\* The positions in the output of the summary lines.
SummaryPos == Positions(out, IsSummary)

\* The number of edits the first h hunks cover.
CoveredBy(h) == Cardinality(UNION {HunkRange(hunks[g]) : g \in 1 .. h})

\* C26: in gutter format one summary line is written between the lines of
\* every two consecutive hunks, with the number of Eq edits between the
\* ranges the two hunks cover, and there is no other summary line.
C26_SummaryBetweenHunks ==
    Written /\ gutter =>
        /\ Len(SummaryPos) = Max(Len(hunks) - 1, 0)
        /\ \A h \in 1 .. Len(hunks) - 1 :
            /\ SummaryPos[h] = CoveredBy(h) + h
            /\ out[SummaryPos[h]].identical = hunks[h + 1].hunkStart - hunks[h].end

(***************************************************************************)
(* Properties of gdiff *)
(***************************************************************************)

\* run has returned.
Exited == gpc = "done"

\* run called files.
FilesCalled == args.parse = "ok" /\ args.narg = 2

BothRead ==
    /\ fileOld.exists /\ fileOld.readable
    /\ fileNew.exists /\ fileNew.readable

\* Lines has returned an edit list with an Ins or Del edit (without one).
HasChange == pc = "done" /\ \E j \in 1 .. Len(result) : result[j].Op # Eq
NoChange == pc = "done" /\ \A j \in 1 .. Len(result) : result[j].Op = Eq

\* A Write call on w has failed.
WriteFailed == \E j \in 1 .. Len(sink) : ~sink[j].ok

\* C27: run returns 0 when both files were read and the edit list has no Ins
\* or Del edit; 1 when the edit list has one and the diff was written; 2 when
\* the number of file names is not two, when the flags do not parse (a help
\* request apart), when a file cannot be read and when a write fails.
C27_ExitCodes ==
    Exited =>
        /\ code \in {0, 1, 2}
        /\ FilesCalled /\ BothRead /\ NoChange => code = 0
        /\ FilesCalled /\ BothRead /\ HasChange /\ upc = "done" /\ ret = "nil" => code = 1
        /\ args.parse = "ok" /\ args.narg # 2 => code = 2
        /\ args.parse = "error" => code = 2
        /\ FilesCalled /\ ~BothRead => code = 2
        /\ WriteFailed => code = 2

\* Two files that differ, the diff written in unified format after the file
\* header, and exit code 1.
C27_Witness ==
    /\ Exited
    /\ code = 1
    /\ HasChange
    /\ Len(sink) = 2
    /\ \E j \in 1 .. Len(out) : IsHeader(out[j])

\* Two equal files that are not empty and exit code 0; a failed write of the
\* diff and exit code 2.
C27_WitnessEqual == Exited /\ code = 0 /\ BothRead /\ Len(result) > 0
C27_WitnessFailed == Exited /\ code = 2 /\ WriteFailed /\ out # << >>

\* The file header is the first Write call on w if it is written (header),
\* and no Write call on w is the file header otherwise.
HeaderFirst(header) ==
    \A j \in 1 .. Len(sink) : sink[j].from = "writeFileHeader" <=> header /\ j = 1

\* files has returned or panicked.
FilesEnded == FilesCalled /\ gpc \in {"done", "panic"}

\* C28 as stated: files returns false without a Write call on w when the edit
\* list has no Ins or Del edit; when it has one, files returns true, and the
\* file header is written exactly in unified format, before anything else;
\* when a file cannot be read, files returns an error without a Write call
\* on w.
C28_FilesWrites ==
    FilesEnded =>
        /\ BothRead /\ NoChange =>
            gpc = "done" /\ fret = [hasDiff |-> FALSE, err |-> FALSE] /\ sink = << >>
        /\ BothRead /\ HasChange =>
            /\ gpc = "done" /\ fret = [hasDiff |-> TRUE, err |-> FALSE]
            /\ HeaderFirst(~args.gutter)
            /\ ~args.gutter => Len(sink) >= 1
        /\ ~BothRead =>
            gpc = "done" /\ fret = [hasDiff |-> FALSE, err |-> TRUE] /\ sink = << >>

\* C28, amended: as C28, but with an Ins or Del edit in the edit list files
\* returns true only when no Write call on w fails and -U is not negative;
\* when a Write call fails files returns false and the error, and with a
\* negative -U it panics before any Write call on w.  Nothing is ever
\* written to w unless both files were read, the edit list has an Ins or Del
\* edit and -U is not negative.
C28_FilesWritesAmended ==
    /\ sink # << >> => FilesCalled /\ BothRead /\ HasChange /\ args.context >= 0
    /\ HeaderFirst(~args.gutter)
    /\ FilesEnded =>
        /\ BothRead /\ NoChange =>
            gpc = "done" /\ fret = [hasDiff |-> FALSE, err |-> FALSE]
        /\ BothRead /\ HasChange /\ args.context < 0 => gpc = "panic"
        /\ BothRead /\ HasChange /\ args.context >= 0 =>
            /\ gpc = "done"
            /\ fret = [hasDiff |-> ~WriteFailed, err |-> WriteFailed]
            /\ ~args.gutter => Len(sink) >= 1
        /\ ~BothRead =>
            gpc = "done" /\ fret = [hasDiff |-> FALSE, err |-> TRUE]

\* Two files that differ, in unified format: the file header and then the
\* hunks were written to w, and files returned true.
C28_Witness ==
    /\ FilesEnded
    /\ gpc = "done"
    /\ fret = [hasDiff |-> TRUE, err |-> FALSE]
    /\ ~args.gutter
    /\ Len(sink) = 2
    /\ sink[1].from = "writeFileHeader" /\ sink[2].from = "bufio"
    /\ Len(hunks) >= 1

(***************************************************************************)
(* Further properties of WriteUnified and Lines *)
(***************************************************************************)

SearchX == snake(searchStart(v, k, d), searchStart(v, k, d) - k)
SearchY == SearchX - k

\* C32: for a non-empty input the stop test of the search fires only at the
\* point (n, m), it fires before the loop over the depths runs out, and the
\* trace returned has D + 1 snapshots, D <= n + m the minimal edit distance
\* n + m - 2 * LCS.
C32_StopAtEnd ==
    maxD > 0 =>
        /\ pc = "search" =>
            /\ d <= maxD
            /\ ~outOfBounds(k) /\ reachedEnd(SearchX, SearchY) =>
                    SearchX = n /\ SearchY = m
            /\ k + 2 > d /\ d = maxD =>
                    ~outOfBounds(k) /\ reachedEnd(SearchX, SearchY)
        /\ pc \in {"walk", "done"} =>
            /\ Len(trace) = n + m - 2 * LCS(oldLines, newLines) + 1
            /\ Len(trace) - 1 <= n + m
            /\ v[k + maxD] = n /\ n - k = m

\* The search has returned at a depth of at least 2 below n + m.
C32_Witness ==
    /\ pc = "walk"
    /\ d = Len(trace) - 1
    /\ Len(trace) >= 3
    /\ Len(trace) - 1 < maxD
    /\ LCS(oldLines, newLines) >= 1

\* Whether the iteration of the search on diagonal k of depth d reads and
\* writes the V array inside its range: v[i+1] on the lowest diagonal, v[i-1]
\* on the highest, both in between, and v[i] in all cases.
SearchReadsOK ==
    /\ inV(k + maxD)
    /\ IF k = -d THEN inV(k + maxD + 1)
       ELSE IF k # d THEN inV(k + maxD - 1) /\ inV(k + maxD + 1)
       ELSE inV(k + maxD - 1)

\* Whether the snake of the search starts at a point from which a[x] and
\* b[y] are read inside their ranges.
SearchSnakeOK ==
    LET xs == searchStart(v, k, d)
    IN  xs < n /\ xs - k < m => xs >= 0 /\ xs - k >= 0

\* Whether the iteration of the walk at depth d indexes the trace, the
\* snapshot and the two sequences inside their ranges.
WalkOK ==
    /\ 0 <= d /\ d < Len(trace)
    /\ walkReadsOK(x - y, d)
    /\ LET vv == trace[d + 1]
           prevK == walkPrevK(vv, x - y, d)
       IN  /\ inV(prevK + maxD)
           /\ LET prevX == vv[prevK + maxD]
                  len == walkSnakeLen(x, y, prevX, prevX - prevK)
              IN  /\ walkSnakeOK(x, y, len)
                  /\ d > 0 =>
                        walkEditOK(IF walkDown(vv, x - y, d) THEN Ins ELSE Del, x - len, y - len)

\* C33: Lines never indexes out of range: every iteration of the search and
\* every iteration of the walk reads the V array inside 0 .. 2*(n+m) and the
\* two sequences inside 1 .. n and 1 .. m, and Lines never panics.
C33_IndexesInRange ==
    /\ pc # "panic"
    /\ pc = "search" /\ ~outOfBounds(k) => SearchReadsOK /\ SearchSnakeOK
    /\ pc = "walk" => WalkOK

\* The walk has appended edits and is at a depth above 0 on a diagonal that
\* is neither the lowest nor the highest of the depth, where it reads both
\* v[i-1] and v[i+1].
C33_Witness ==
    /\ pc = "walk"
    /\ d > 0
    /\ edits # << >>
    /\ x - y # -d /\ x - y # d
    /\ WalkOK

\* What a step into and a step of the walk do: the walk starts at (n, m) at
\* the last depth of the trace; an iteration at depth d moves to the point
\* that the snapshot of depth d records for one of the two neighbouring
\* diagonals and appends one Ins or Del edit when d > 0 and none when d = 0;
\* the iteration at depth 0 ends at (0, lastY).
WalkReplays(lastY) ==
    /\ pc = "search" /\ pc' = "walk" =>
            x' = n /\ y' = m /\ d' = Len(trace') - 1
    /\ pc = "walk" /\ pc' \in {"walk", "done"} =>
        /\ x' - y' \in {x - y + 1, x - y - 1}
        /\ x' = trace[d + 1][x' - y' + maxD]
        /\ Changes(edits') - Changes(edits) = (IF d > 0 THEN 1 ELSE 0)
        /\ d = 0 => x' = 0 /\ y' = lastY

\* C34 as stated: the walk replays the search, one Ins or Del edit per depth
\* above 0, and after depth 0 the position is (0, 0).
C34_WalkReplays == [][WalkReplays(0)]_vars

\* C34, amended: the walk replays the search, one Ins or Del edit per depth
\* above 0; at depth 0 the walk is on diagonal 0 and its snake leads to
\* (0, 0), and the position after depth 0 is (0, -1), the point the first
\* snapshot records for diagonal 1.
C34_WalkReplaysAmended ==
    [][/\ WalkReplays(-1)
       /\ pc = "walk" /\ d = 0 /\ pc' = "done" =>
            /\ x = y
            /\ Len(edits') = Len(edits) + x
            /\ Changes(edits') = Changes(edits)]_vars

\* The walk has returned from a trace of three or more depths after walking
\* a snake back to (0, 0) at depth 0.
C34_Witness ==
    /\ pc = "done"
    /\ Len(trace) >= 3
    /\ x = 0 /\ y = -1
    /\ result # << >>
    /\ result[1].Op = Eq

\* C35: every edit line WriteUnified writes is the glyph of the edit, '+' for
\* Ins, '-' for Del and ' ' for Eq, and then the text of the edit unchanged:
\* OldLine for a Del edit, NewLine for an Ins or Eq edit.
C35_GlyphThenText ==
    Written =>
        /\ Len(OutEdits) = Len(CoveredPos)
        /\ \A q \in 1 .. Len(OutEdits) :
            LET e == uwEdits[CoveredPos[q]]
            IN  /\ e.Op = Ins => OutEdits[q].glyph = "+" /\ OutEdits[q].text = e.NewLine
                /\ e.Op = Del => OutEdits[q].glyph = "-" /\ OutEdits[q].text = e.OldLine
                /\ e.Op = Eq => OutEdits[q].glyph = " " /\ OutEdits[q].text = e.NewLine

\* A Del line with its old text, an Eq line whose new text differs from its
\* old text, and an Ins line.
C35_Witness ==
    /\ Written
    /\ \E q, r, t \in 1 .. Len(OutEdits) :
        /\ OutEdits[q].glyph = "-" /\ OutEdits[q].text = <<"l">>
        /\ OutEdits[r].glyph = " " /\ uwEdits[CoveredPos[r]].OldLine # OutEdits[r].text
        /\ OutEdits[t].glyph = "+" /\ OutEdits[t].text = <<"l", "\n">>

RECURSIVE Concat(_)
\* The concatenation of a sequence of texts.
Concat(lines) == IF lines = << >> THEN << >> ELSE Head(lines) \o Concat(Tail(lines))

\* Whether lines is a split of data that loses nothing: the concatenation
\* is data, no line is empty, and every line but the last ends with '\n'.
LosslessSplit(data, lines) ==
    /\ Concat(lines) = data
    /\ \A j \in 1 .. Len(lines) : lines[j] # << >>
    /\ \A j \in 1 .. Len(lines) - 1 : EndsWithNewline(lines[j])
    /\ data = << >> => lines = << >>

\* files has read both files.
FilesHaveRead == FilesCalled /\ BothRead /\ gpc \notin {"run", "files"}

\* C36: the lines readLines returns for a file concatenate to the content of
\* the file, none of them is empty, every one but the last ends with '\n',
\* and an empty file has no lines.
C36_ReadLinesLossless ==
    FilesHaveRead =>
        /\ LosslessSplit(fileOld.data, oldLines)
        /\ LosslessSplit(fileNew.data, newLines)

\* A file that does not end with '\n' read as two lines and a file that
\* starts with a blank line and ends with '\n' read as two lines.
C36_Witness ==
    /\ FilesHaveRead
    /\ fileOld.data = <<"a", "\n", "a">>
    /\ oldLines = << <<"a", "\n">>, <<"a">> >>
    /\ fileNew.data = <<"\n", "a", "\n">>
    /\ newLines = << <<"\n">>, <<"a", "\n">> >>

\* A step taken inside Lines (inside the loop of write).
InLines == pc \in {"search", "walk"}
InWrite == upc = "loop"

\* C37: no step of Lines changes an element of its two input sequences, and
\* no step of the loop of write changes an element of the edit list it was
\* given, which stays the list Lines returned.
C37_InputsUnchanged ==
    [][/\ InLines => (oldLines' = oldLines /\ newLines' = newLines)
       /\ InWrite => (uwEdits' = uwEdits /\ result' = result /\ uwEdits' = result')]_vars

\* Lines has returned a list of at least two edits that differs from its
\* reversal, for old lines that differ from their reversal, and the writer
\* has written a hunk of it; the caller's lines and edits are as before.
C37_Witness ==
    /\ FilesHaveRead
    /\ Written
    /\ hunks # << >>
    /\ oldLines # Reverse(oldLines)
    /\ oldLines = readLines(fileOld.data)
    /\ newLines = readLines(fileNew.data)
    /\ Len(result) >= 2
    /\ result # Reverse(result)
    /\ uwEdits = result

\* No hunk is open.
NoHunk == hunkStart = -1

\* The fields of the current hunk have their values of no hunk.
IdleFields ==
    /\ hunkEnd = -1
    /\ startOld = 0
    /\ startNew = 0
    /\ countOld = 0
    /\ countNew = 0
    /\ eqCount = 0

\* A step of write that closes the open hunk.
ClosesHunk == hunkStart >= 0 /\ hunkStart' = -1

\* A step of write on an Eq edit while no hunk is open.
IdleEq == InWrite /\ NoHunk /\ i < Len(uwEdits) /\ uwEdits[i + 1].Op = Eq

\* C38: whenever no hunk is open, hunkEnd is -1 and startOld, startNew,
\* countOld, countNew and eqCount are 0; a step that closes a hunk leaves
\* these values; an Eq edit met while no hunk is open is counted in lineOld
\* and lineNew and changes no other field and writes nothing.
C38_IdleState ==
    /\ [](NoHunk => IdleFields)
    /\ [][/\ ClosesHunk => IdleFields'
          /\ IdleEq =>
                /\ lineOld' = lineOld + 1
                /\ lineNew' = lineNew + 1
                /\ UNCHANGED <<hunkStart, hunkEnd, startOld, startNew, countOld,
                               countNew, eqCount, uwEdits, context, out, hunks>>
                /\ UNCHANGED sinkVars]_vars

\* A hunk was closed in the loop after more than context equal lines, and
\* an Eq edit after it was passed with no hunk open.
C38_Witness ==
    /\ InWrite
    /\ NoHunk
    /\ IdleFields
    /\ context > 0
    /\ Len(hunks) = 1
    /\ i > hunks[1].end + context + 1
    /\ uwEdits[i].Op = Eq
    /\ lineOld > hunks[1].startOld + hunks[1].countOld

RECURSIVE TrailingEq(_)
\* The number of Eq edits at the end of an edit list, after its last Ins or
\* Del edit.
TrailingEq(es) ==
    IF es = << >> \/ es[Len(es)].Op # Eq THEN 0
    ELSE 1 + TrailingEq(SubSeq(es, 1, Len(es) - 1))

\* The number of edits with an operation of ops among the edits of the
\* 0-indexed positions from .. to.
CountOps(ops, from, to) ==
    Cardinality({j \in from .. to : uwEdits[j + 1].Op \in ops})

\* A hunk is open after an edit was processed in the loop of write.
HunkOpen == InWrite /\ hunkStart >= 0

\* C39: while a hunk is open in the loop of write, 0 <= hunkStart <=
\* hunkEnd, eqCount is the number of Eq edits processed since the last Ins or
\* Del edit and lies in 0 .. 2*context, countOld is the number of Del and Eq
\* edits in [hunkStart, hunkEnd] and countNew the number of Ins and Eq edits
\* in it.
C39_OpenState ==
    HunkOpen =>
        /\ 0 <= hunkStart
        /\ hunkStart <= hunkEnd
        /\ eqCount = TrailingEq(SubSeq(uwEdits, 1, i))
        /\ 0 <= eqCount
        /\ eqCount <= 2 * context
        /\ countOld = CountOps({Del, Eq}, hunkStart, hunkEnd)
        /\ countNew = CountOps({Ins, Eq}, hunkStart, hunkEnd)

\* A hunk that opened with context before its first change, holds an Ins
\* and a Del edit and has waited through more than context equal lines.
C39_Witness ==
    /\ HunkOpen
    /\ hunkStart > 0
    /\ context > 0
    /\ eqCount > context
    /\ countOld # countNew
    /\ CountOps({Del}, hunkStart, hunkEnd) > 0
    /\ CountOps({Ins}, hunkStart, hunkEnd) > 0

====
